---- MODULE Spec2Model ----
(***************************************************************************)
(* Verification model of the antidote agent: command authorization         *)
(* (signing.Verifier, security.Validator), command execution               *)
(* (executor.Executor), message routing (router.Router) and the outbound   *)
(* queue of connection.Manager.                                            *)
(*                                                                         *)
(* Go strings are modelled as sequences of one-character strings, so that  *)
(* splitting, trimming, prefix tests, sorting and joining are computed as  *)
(* the code computes them.                                                 *)
(***************************************************************************)
EXTENDS Integers, Sequences, FiniteSets, TLC

\* ------------------------------------------------------------------------
\* Bounds of the model
\* ------------------------------------------------------------------------
MaxDirLen == 3
MaxCmdLen == 3
MaxApps == 2
MaxCmds == 2
MaxLines == 1
SendQueueCap == 2
MaxConns == 2
MaxFails == 7
MaxSightings == 4
MaxNow == 3
MaxProcessed == 4
MaxUpdates == 2
MaxFiles == 2
MaxWrites == 3
MaxClock == 2
MaxEmitted == 4
MaxConfigUpdates == 3

\* ------------------------------------------------------------------------
\* Strings
\* ------------------------------------------------------------------------
LF == "\n"
NUL == "NUL"

\* All sequences over alphabet A of length at most n.
RECURSIVE StringsUpTo(_, _)
StringsUpTo(A, n) ==
    IF n = 0 THEN {<<>>}
    ELSE LET shorter == StringsUpTo(A, n - 1)
         IN  shorter \cup {Append(s, c) : s \in {t \in shorter : Len(t) = n - 1}, c \in A}

\* strings.HasPrefix
HasPrefix(s, p) == Len(p) <= Len(s) /\ SubSeq(s, 1, Len(p)) = p

\* strings.HasSuffix
HasSuffix(s, p) == Len(p) <= Len(s) /\ SubSeq(s, Len(s) - Len(p) + 1, Len(s)) = p

\* strings.Contains
Contains(s, p) == \E i \in 1..(Len(s) - Len(p) + 1) : SubSeq(s, i, i + Len(p) - 1) = p

\* unicode.IsSpace restricted to the characters of the model
IsSpace(c) == c \in {" ", LF, "\t"}

\* strings.TrimSpace
RECURSIVE TrimLeft(_)
TrimLeft(s) == IF s # <<>> /\ IsSpace(Head(s)) THEN TrimLeft(Tail(s)) ELSE s

RECURSIVE TrimRight(_)
TrimRight(s) ==
    IF s # <<>> /\ IsSpace(s[Len(s)]) THEN TrimRight(SubSeq(s, 1, Len(s) - 1)) ELSE s

TrimSpace(s) == TrimRight(TrimLeft(s))

\* strings.Split(s, sep) for a one-character separator: a sequence of strings
RECURSIVE Split(_, _)
Split(s, sep) ==
    IF \A i \in 1..Len(s) : s[i] # sep THEN <<s>>
    ELSE LET i == CHOOSE k \in 1..Len(s) : s[k] = sep /\ \A j \in 1..(k - 1) : s[j] # sep
         IN  <<SubSeq(s, 1, i - 1)>> \o Split(SubSeq(s, i + 1, Len(s)), sep)

\* strings.ReplaceAll(s, c, "") for a one-character c
RemoveAll(s, c) == SelectSeq(s, LAMBDA x : x # c)

\* strings.ToLower / strings.ToUpper on the letters of the model
LowerChar(c) ==
    CASE c = "R" -> "r" [] c = "X" -> "x" [] c = "P" -> "p" [] c = "A" -> "a"
      [] c = "T" -> "t" [] c = "H" -> "h" [] OTHER -> c

UpperChar(c) ==
    CASE c = "r" -> "R" [] c = "x" -> "X" [] c = "p" -> "P" [] c = "a" -> "A"
      [] c = "t" -> "T" [] c = "h" -> "H" [] OTHER -> c

ToLower(s) == [i \in 1..Len(s) |-> LowerChar(s[i])]

ToUpper(s) == [i \in 1..Len(s) |-> UpperChar(s[i])]

\* strings.Join(parts, sep)
RECURSIVE Join(_, _)
Join(parts, sep) ==
    IF parts = <<>> THEN <<>>
    ELSE IF Len(parts) = 1 THEN parts[1]
    ELSE parts[1] \o sep \o Join(Tail(parts), sep)

\* ------------------------------------------------------------------------
\* filepath.Clean (Unix): collapse separators, drop "." elements, resolve
\* ".." elements, no trailing separator; the empty path cleans to ".".
\* ------------------------------------------------------------------------
RECURSIVE CleanElems(_, _, _)
CleanElems(elems, out, rooted) ==
    IF elems = <<>> THEN out
    ELSE LET e == Head(elems)
             rest == Tail(elems)
         IN  IF e = <<>> \/ e = <<".">> THEN CleanElems(rest, out, rooted)
             ELSE IF e = <<".", ".">>
                  THEN IF out # <<>> /\ out[Len(out)] # <<".", ".">>
                       THEN CleanElems(rest, SubSeq(out, 1, Len(out) - 1), rooted)
                       ELSE IF rooted THEN CleanElems(rest, out, rooted)
                            ELSE CleanElems(rest, Append(out, e), rooted)
                  ELSE CleanElems(rest, Append(out, e), rooted)

Clean(path) ==
    IF path = <<>> THEN <<".">>
    ELSE LET rooted == Head(path) = "/"
             body == Join(CleanElems(Split(path, "/"), <<>>, rooted), <<"/">>)
         IN  IF rooted THEN <<"/">> \o body
             ELSE IF body = <<>> THEN <<".">> ELSE body

\* ------------------------------------------------------------------------
\* security.Validator
\* ------------------------------------------------------------------------
VARIABLES
    allowedPaths,     \* Validator.allowedPaths: sequence of cleaned app paths
    denyPatterns,     \* Validator.denyPatterns: sequence of compiled patterns
    lastApps,         \* history: the argument of the latest UpdateApps, or NoApps
    lastValidation,   \* history: the latest ValidateCommand call and its result
    calls             \* Validator.mu and the calls of the validator in progress

validatorVars == <<allowedPaths, denyPatterns, lastApps, lastValidation, calls>>

NoApps == [called |-> FALSE]
NoValidation == [called |-> FALSE]
NilConfig == [present |-> FALSE, Deny |-> <<>>]

MaxCommandLength == 65536
MaxCommandIDLen == 256
MaxEnvVarNameLen == 256
MaxEnvVarValueLen == 32768
MaxTimeout == 3600

\* The built-in deny list. The source lists some sixty regular expressions; the
\* model keeps one unanchored pattern of it (such as `>\s*/etc/shadow`), reduced
\* to a literal over the alphabet of the model commands.
DefaultDenyPatterns == << <<"r">> >>

\* The protected names, upper case as in the source table.
ProtectedEnvVars == { <<"P", "A", "T", "H">> }

\* regexp.Compile: a pattern of the model compiles unless it holds an unbalanced
\* "("; a compiled pattern is the literal it matches.
RegexpCompile(pattern) ==
    IF \E i \in 1..Len(pattern) : pattern[i] = "("
    THEN [ok |-> FALSE]
    ELSE [ok |-> TRUE, lit |-> pattern]

\* regexp.Compile(regexp.QuoteMeta(pattern)): the pattern as a literal
CompileQuoted(pattern) == [ok |-> TRUE, lit |-> pattern]

\* Regexp.MatchString
MatchString(re, s) == Contains(s, re.lit)

\* compileDenyPatterns that drops a pattern that does not compile
RECURSIVE compileDenyPatternsDropping(_)
compileDenyPatternsDropping(patterns) ==
    IF patterns = <<>> THEN <<>>
    ELSE (IF RegexpCompile(Head(patterns)).ok THEN <<RegexpCompile(Head(patterns))>>
          ELSE <<>>) \o compileDenyPatternsDropping(Tail(patterns))

\* Validator.compileDenyPatterns(patterns)
RECURSIVE compileDenyPatterns(_)
compileDenyPatterns(patterns) ==
    IF patterns = <<>> THEN <<>>
    ELSE LET re == RegexpCompile(Head(patterns))
             lit == CompileQuoted(Head(patterns))
         IN  (IF re.ok THEN <<re>> ELSE IF lit.ok THEN <<lit>> ELSE <<>>)
                \o compileDenyPatterns(Tail(patterns))

\* The app paths and the per-app deny patterns collected by UpdateApps
RECURSIVE AppPaths(_)
AppPaths(apps) ==
    IF apps = <<>> THEN <<>> ELSE <<Clean(Head(apps).Path)>> \o AppPaths(Tail(apps))

RECURSIVE AppDenyPatterns(_)
AppDenyPatterns(apps) ==
    IF apps = <<>> THEN <<>>
    ELSE (IF ~Head(apps).Config.present THEN <<>> ELSE Head(apps).Config.Deny)
            \o AppDenyPatterns(Tail(apps))

\* isSpaceObfuscatedTraversal
isSpaceObfuscatedTraversal(s) ==
    /\ HasPrefix(s, <<".">>)
    /\ HasSuffix(s, <<".">>)
    /\ Contains(s, <<" ">>)
    /\ RemoveAll(RemoveAll(s, "."), " ") = <<>>

\* containsPathTraversal without the trimming of the segments
containsPathTraversalUntrimmed(path) ==
    LET parts == Split(path, "/")
    IN  \E i \in 1..Len(parts) :
            parts[i] = <<".", ".">> \/ isSpaceObfuscatedTraversal(parts[i])

\* containsPathTraversal
containsPathTraversal(path) ==
    LET parts == Split(path, "/")
    IN  \E i \in 1..Len(parts) :
            LET trimmed == TrimSpace(parts[i])
            IN  trimmed = <<".", ".">> \/ isSpaceObfuscatedTraversal(trimmed)

\* validateWorkingDir: "OK" or the error code
validateWorkingDir(dir) ==
    LET cleanDir == Clean(dir)
    IN  IF Contains(dir, <<NUL>>) THEN "PATH_TRAVERSAL"
        ELSE IF containsPathTraversal(dir) THEN "PATH_TRAVERSAL"
        ELSE IF Len(allowedPaths) = 0 THEN "OK"
        ELSE IF \E i \in 1..Len(allowedPaths) : HasPrefix(cleanDir, allowedPaths[i])
             THEN "OK"
        ELSE "INVALID_WORKING_DIR"

\* The check of one environment entry inside validateEnvVars
EnvEntryError(name, value) ==
    IF Len(name) > MaxEnvVarNameLen THEN "ENV_NAME_TOO_LONG"
    ELSE IF Len(value) > MaxEnvVarValueLen THEN "ENV_VALUE_TOO_LONG"
    ELSE IF ToUpper(name) \in ProtectedEnvVars THEN "PROTECTED_ENV_VAR"
    ELSE IF \E i \in 1..Len(name) : name[i] \in {NUL, "="} THEN "INVALID_ENV_NAME"
    ELSE "OK"

\* validateEnvVars ranges over a Go map, whose iteration order is unspecified:
\* the error returned is that of whichever failing entry is visited first.
validateEnvVars(env) ==
    LET errs == {EnvEntryError(n, env[n]) : n \in DOMAIN env} \ {"OK"}
    IN  IF errs = {} THEN {"OK"} ELSE errs

\* stripInlineComments: the text before the first '#' outside quotes that is not
\* escaped, trimmed; the whole text when there is none.
RECURSIVE StripFrom(_, _, _, _, _)
StripFrom(cmd, i, inSingleQuote, inDoubleQuote, escaped) ==
    IF i > Len(cmd) THEN cmd
    ELSE IF escaped THEN StripFrom(cmd, i + 1, inSingleQuote, inDoubleQuote, FALSE)
    ELSE IF cmd[i] = "\\" THEN StripFrom(cmd, i + 1, inSingleQuote, inDoubleQuote, TRUE)
    ELSE IF cmd[i] = "'"
         THEN StripFrom(cmd, i + 1,
                        IF inDoubleQuote THEN inSingleQuote ELSE ~inSingleQuote,
                        inDoubleQuote, FALSE)
    ELSE IF cmd[i] = "\""
         THEN StripFrom(cmd, i + 1, inSingleQuote,
                        IF inSingleQuote THEN inDoubleQuote ELSE ~inDoubleQuote, FALSE)
    ELSE IF cmd[i] = "#" /\ ~inSingleQuote /\ ~inDoubleQuote
         THEN TrimSpace(SubSeq(cmd, 1, i - 1))
    ELSE StripFrom(cmd, i + 1, inSingleQuote, inDoubleQuote, FALSE)

stripInlineComments(cmd) == StripFrom(cmd, 1, FALSE, FALSE, FALSE)

\* The test checkDenyPatterns applies to one line of the command
LineDenied(rawLine) ==
    LET line == TrimSpace(rawLine)
        cmdToCheck == stripInlineComments(line)
        normalizedCmd == ToLower(cmdToCheck)
    IN  /\ line # <<>>
        /\ ~HasPrefix(line, <<"#">>)
        /\ cmdToCheck # <<>>
        /\ \E i \in 1..Len(denyPatterns) :
              \/ MatchString(denyPatterns[i], cmdToCheck)
              \/ MatchString(denyPatterns[i], normalizedCmd)

\* checkDenyPatterns: "OK" or "COMMAND_DENIED"
checkDenyPatterns(command) ==
    LET trimmedCmd == TrimSpace(command)
        lines == Split(trimmedCmd, LF)
    IN  IF HasPrefix(trimmedCmd, <<"#">>) THEN "OK"
        ELSE IF \E i \in 1..Len(lines) : LineDenied(lines[i]) THEN "COMMAND_DENIED"
        ELSE "OK"

\* ValidateCommand: the set of results the call can return ("OK" for nil)
ValidateCommand(cmd) ==
    IF Len(cmd.ID) > MaxCommandIDLen THEN {"COMMAND_ID_TOO_LONG"}
    ELSE IF Len(cmd.Command) > MaxCommandLength THEN {"COMMAND_TOO_LONG"}
    ELSE IF cmd.Timeout > MaxTimeout THEN {"TIMEOUT_TOO_LONG"}
    ELSE IF cmd.WorkingDir # <<>> /\ validateWorkingDir(cmd.WorkingDir) # "OK"
         THEN {validateWorkingDir(cmd.WorkingDir)}
    ELSE IF validateEnvVars(cmd.Env) # {"OK"} THEN validateEnvVars(cmd.Env)
    ELSE {checkDenyPatterns(cmd.Command)}

\* ---- inputs of the validator specification ----
DirChars == {"/", ".", " ", "a"}
CmdChars == {"r", "R", "x", "#", LF, " ", "'"}

Dirs == StringsUpTo(DirChars, MaxDirLen)
NulDirs == { <<NUL>>, <<"/", "a", NUL>>, <<"/", "a", "/", NUL, "a">> }
Commands == StringsUpTo(CmdChars, MaxCmdLen)

NoEnv == <<>>
EnvSamples ==
    { NoEnv,
      [n \in { <<"p", "a", "t", "h">> } |-> <<"x">>],
      [n \in { <<"x", "=">> } |-> <<"x">>],
      [n \in { <<"x">> } |-> <<"x">>],
      [n \in { <<"P", "A", "T", "H">>, <<"x", "=">> } |-> <<"x">>] }

TimeoutSamples == {-1, 0, 1, MaxTimeout, MaxTimeout + 1}

\* A deny pattern that does not compile, as "(?P<name" in the tests
BadPattern == <<"(">>

AppInfos ==
    [Path : { <<"/", "a">>, <<"/", "a", "/">> },
     Config : {NilConfig, [present |-> TRUE, Deny |-> << <<"x">> >>],
               [present |-> TRUE, Deny |-> << BadPattern, <<"R">> >>]}]

RECURSIVE SeqsUpTo(_, _)
SeqsUpTo(S, n) ==
    IF n = 0 THEN {<<>>}
    ELSE LET shorter == SeqsUpTo(S, n - 1)
         IN  shorter \cup {Append(q, x) : q \in {t \in shorter : Len(t) = n - 1}, x \in S}

AppLists == SeqsUpTo(AppInfos, MaxApps)

Cmd(id, command, dir, env, timeout) ==
    [ID |-> id, Command |-> command, WorkingDir |-> dir, Env |-> env, Timeout |-> timeout]

ValidatorInputs ==
    {Cmd(<<"a">>, c, <<>>, NoEnv, 0) : c \in Commands \cup {BadPattern}}
      \cup {Cmd(<<"a">>, <<"x">>, d, NoEnv, 0) : d \in Dirs \cup NulDirs}
      \cup {Cmd(<<"a">>, c, d, e, t) :
              c \in { <<"x">>, <<"r">> }, d \in { <<>>, <<"/", "b">>, <<".", ".">> },
              e \in EnvSamples, t \in TimeoutSamples}

\* What a ValidateCommand in progress has read of a list of the validator
Unread == [read |-> FALSE, list |-> <<>>]
ReadAs(list) == [read |-> TRUE, list |-> list]

\* Validator.mu unlocked and no call of the validator in progress. The field
\* states is history: the states the validator had whenever mu was free of
\* writers
NoCalls ==
    [mu |-> [writer |-> FALSE, readers |-> 0],
     update |-> [pc |-> "idle", apps |-> <<>>, next |-> 0, allPatterns |-> <<>>, n |-> 0],
     validate |-> [pc |-> "idle", cmd |-> <<>>, paths |-> Unread, deny |-> Unread,
                   result |-> ""],
     states |-> { [allowedPaths |-> <<>>,
                   denyPatterns |-> compileDenyPatterns(DefaultDenyPatterns)] }]

\* NewValidator
NewValidatorState ==
    /\ allowedPaths = <<>>
    /\ denyPatterns = compileDenyPatterns(DefaultDenyPatterns)
    /\ lastApps = NoApps
    /\ lastValidation = NoValidation
    /\ calls = NoCalls

\* Validator.UpdateApps(apps)
UpdateApps(apps) ==
    /\ allowedPaths' = AppPaths(apps)
    /\ denyPatterns' = compileDenyPatterns(DefaultDenyPatterns \o AppDenyPatterns(apps))
    /\ lastApps' = [called |-> TRUE, apps |-> apps]
    /\ lastValidation' = NoValidation
    /\ UNCHANGED calls

\* A call of Validator.ValidateCommand(cmd), its result recorded. The call reads
\* the validator and changes nothing, so one call is recorded for each state of
\* the validator: the record is cleared by the next UpdateApps.
Validate(cmd) ==
    /\ ~lastValidation.called
    /\ \E code \in ValidateCommand(cmd) :
          lastValidation' = [called |-> TRUE, cmd |-> cmd, result |-> code]
    /\ UNCHANGED <<allowedPaths, denyPatterns, lastApps, calls>>


\* ------------------------------------------------------------------------
\* executor.Executor, and the outbound queue its handlers feed
\* ------------------------------------------------------------------------
VARIABLES
    task,        \* per command handed to Execute: the state of its goroutine,
                 \* of its context and of its subprocess
    running,     \* Executor.running: id -> the command whose cancel func is stored
    hist,        \* history: the handler calls made for each command
    handlers,    \* who was given to executor.New: "recording" callbacks (as the
                 \* executor's tests do) or the "router" handlers, which send
    sendCh,      \* Manager.sendCh: the outbound queue
    net          \* history: what became of the frames handed to Manager.Send

executorVars == <<task, running, hist>>
sinkVars == <<handlers, sendCh, net>>

DefaultTimeout == 300

Slots == 1..MaxCmds
Streams == {"stdout", "stderr"}
ExecIds == { <<"a">>, <<"b">> }
NoSlot == 0

\* Exit statuses a subprocess of the model ends with on its own
OwnExitCodes == {0, 2}

NoTask ==
    [pc |-> "none", id |-> <<>>, timeout |-> 0, ctx |-> "none", proc |-> "none",
     code |-> 0, watch |-> FALSE,
     budget |-> 0, pending |-> [st \in Streams |-> 0],
     long |-> [st \in Streams |-> FALSE],
     reader |-> [st \in Streams |-> "reading"]]

NoHist ==
    [outputs |-> 0, completes |-> 0, exit |-> 0, rejects |-> 0, rejCode |-> "",
     rejId |-> <<>>, cancelled |-> FALSE]

NoNet == [sent |-> 0, dropped |-> 0, wired |-> 0, lost |-> 0]

\* Mutation of Send: the frame is enqueued whatever the queue holds
SendUnbounded(q, frame) == Append(q, frame)

\* Manager.Send: the non-blocking enqueue. The queue after the call.
Send(q, frame) == IF Len(q) < SendQueueCap THEN Append(q, frame) ELSE q

\* TRUE iff Manager.Send returns the buffer-full error
SendFails(q) == ~(Len(q) < SendQueueCap)

IsTerminal(frame) == frame.type \in {"complete", "rejected"}

\* A handler of the router (handleOutput, handleComplete, handleRejected): it
\* sends the frame and logs a failure. The recording handlers send nothing.
RouterHandle(frame) ==
    IF handlers = "router"
    THEN /\ sendCh' = Send(sendCh, frame)
         /\ net' = IF ~IsTerminal(frame) \/ frame.slot = NoSlot THEN net
                   ELSE IF SendFails(sendCh)
                        THEN [net EXCEPT ![frame.slot].dropped = @ + 1]
                        ELSE [net EXCEPT ![frame.slot].sent = @ + 1]
    ELSE UNCHANGED <<sendCh, net>>

\* messages.NewOutputMessage / NewCompleteMessage / NewRejectedMessage
OutputFrame(s, id, st) == [type |-> "output", slot |-> s, id |-> id, info |-> st]
CompleteFrame(s, id, exitCode) == [type |-> "complete", slot |-> s, id |-> id, info |-> exitCode]
RejectedFrame(s, id, code) == [type |-> "rejected", slot |-> s, id |-> id, info |-> code]

\* The slot the next command handed to Execute takes
NextSlot == Cardinality({s \in Slots : task[s].pc # "none"}) + 1

\* Executor.sendComplete, reached from executeCommand: the complete handler is
\* called; executeCommand returns, its deferred cleanup still to run.
sendComplete(s, exitCode) ==
    /\ hist' = [hist EXCEPT ![s].completes = @ + 1, ![s].exit = exitCode]
    /\ RouterHandle(CompleteFrame(s, task[s].id, exitCode))

\* Mutation of ExecuteReject: the rejected handler is called and Execute goes on
ExecuteRejectAndRun(s, cmd, code) ==
    /\ task' = [task EXCEPT ![s] =
                  [NoTask EXCEPT !.pc = "exec", !.id = cmd.ID, !.ctx = "active",
                                 !.timeout = DefaultTimeout]]
    /\ hist' = [hist EXCEPT ![s].rejects = @ + 1, ![s].rejCode = code,
                            ![s].rejId = cmd.ID]
    /\ RouterHandle(RejectedFrame(s, cmd.ID, code))
    /\ running' = [running EXCEPT ![cmd.ID] = s]

\* The rejection branch of Execute: the rejected handler is called, the error
\* returned
ExecuteReject(s, cmd, code) ==
    /\ task' = [task EXCEPT ![s] = [NoTask EXCEPT !.pc = "rejected", !.id = cmd.ID]]
    /\ hist' = [hist EXCEPT ![s].rejects = @ + 1, ![s].rejCode = code,
                            ![s].rejId = cmd.ID]
    /\ RouterHandle(RejectedFrame(s, cmd.ID, code))
    /\ UNCHANGED running

\* The accepting branch of Execute: context with timeout, entry in the running
\* map, goroutine started.
ExecuteAccept(s, cmd) ==
    /\ task' = [task EXCEPT ![s] =
                  [NoTask EXCEPT !.pc = "exec", !.id = cmd.ID, !.ctx = "active",
                                 !.timeout = IF cmd.Timeout > 0 THEN cmd.Timeout
                                             ELSE DefaultTimeout]]
    /\ running' = [running EXCEPT ![cmd.ID] = s]
    /\ UNCHANGED <<hist, sendCh, net>>

\* Executor.Execute(cmd)
Execute(cmd) ==
    /\ NextSlot \in Slots
    /\ \E code \in ValidateCommand(cmd) :
          IF code # "OK" THEN ExecuteReject(NextSlot, cmd, code)
          ELSE ExecuteAccept(NextSlot, cmd)

\* executeCommand up to cmd.Start: a pipe cannot be created or the process cannot
\* be started (Start also fails when the context is already done).
SpawnFail(s) ==
    /\ task[s].pc = "exec"
    /\ task' = [task EXCEPT ![s].pc = "deferred"]
    /\ sendComplete(s, 1)
    /\ UNCHANGED running

\* executeCommand up to cmd.Start: the subprocess runs, both readers are started
SpawnOk(s) ==
    /\ task[s].pc = "exec"
    /\ task[s].ctx = "active"
    /\ task' = [task EXCEPT ![s].pc = "stream", ![s].proc = "running",
                            ![s].budget = MaxLines]
    /\ UNCHANGED <<running, hist, sendCh, net>>

\* The subprocess writes a line to one of its pipes (at most MaxLines lines in
\* all). What it writes behind a line the scanner cannot take is never read,
\* and is left out.
ProcWrite(s, st) ==
    /\ task[s].proc = "running"
    /\ task[s].budget > 0
    /\ ~task[s].long[st]
    /\ task' = [task EXCEPT ![s].budget = @ - 1, ![s].pending[st] = @ + 1]
    /\ UNCHANGED <<running, hist, sendCh, net>>

\* The subprocess writes a line longer than the scanner's buffer (1024*1024)
ProcWriteLong(s, st) ==
    /\ task[s].proc = "running"
    /\ task[s].budget > 0
    /\ ~task[s].long[st]
    /\ task' = [task EXCEPT ![s].budget = @ - 1, ![s].long[st] = TRUE]
    /\ UNCHANGED <<running, hist, sendCh, net>>

\* The subprocess exits on its own; its ends of the pipes close
ProcExit(s, code) ==
    /\ task[s].proc = "running"
    /\ task' = [task EXCEPT ![s].proc = "exited", ![s].code = code]
    /\ UNCHANGED <<running, hist, sendCh, net>>

\* The timer of context.WithTimeout expires. Once executeCommand has returned
\* the context is read no more, and the timer is left out.
TimerFire(s) ==
    /\ task[s].pc \in {"exec", "stream"}
    /\ task[s].ctx = "active"
    /\ task' = [task EXCEPT ![s].ctx = "deadline"]
    /\ UNCHANGED <<running, hist, sendCh, net>>

\* Mutation of Cancel: every context is cancelled
CancelAll(id) ==
    /\ running[id] # NoSlot
    /\ task' = [s \in Slots |->
                  [task[s] EXCEPT !.ctx = IF @ = "active" THEN "canceled" ELSE @]]
    /\ hist' = [hist EXCEPT ![running[id]].cancelled = TRUE]
    /\ UNCHANGED <<running, sendCh, net>>

\* Executor.Cancel(id) finding an entry: its cancel func is called, true returned
Cancel(id) ==
    /\ running[id] # NoSlot
    /\ LET s == running[id]
       IN  /\ task' = [task EXCEPT ![s].ctx = IF @ = "active" THEN "canceled" ELSE @]
           /\ hist' = [hist EXCEPT ![s].cancelled = TRUE]
    /\ UNCHANGED <<running, sendCh, net>>

\* os/exec: once the context is done, the goroutine started by cmd.Start kills
\* the process, unless cmd.Wait has collected it already. A process that has
\* exited and is not yet collected is signalled without effect.
CtxKill(s) ==
    /\ task[s].pc = "stream"
    /\ task[s].ctx \in {"canceled", "deadline"}
    /\ ~task[s].watch
    /\ task' = [task EXCEPT ![s].watch = TRUE,
                            ![s].proc = IF @ = "running" THEN "killed" ELSE @]
    /\ UNCHANGED <<running, hist, sendCh, net>>

\* streamOutput: the scanner yields a line, the output handler is called
ReadLine(s, st) ==
    /\ task[s].pc = "stream"
    /\ task[s].reader[st] = "reading"
    /\ task[s].pending[st] > 0
    /\ task' = [task EXCEPT ![s].pending[st] = @ - 1]
    /\ hist' = [hist EXCEPT ![s].outputs = @ + 1]
    /\ RouterHandle(OutputFrame(s, task[s].id, st))
    /\ UNCHANGED running

\* streamOutput: the pipe is empty and closed (the subprocess has ended; no
\* other process holds the pipe), scanner.Scan returns false at EOF, wg.Done
ReadEOF(s, st) ==
    /\ task[s].pc = "stream"
    /\ task[s].reader[st] = "reading"
    /\ task[s].pending[st] = 0
    /\ ~task[s].long[st]
    /\ task[s].proc \in {"exited", "killed"}
    /\ task' = [task EXCEPT ![s].reader[st] = "eof"]
    /\ UNCHANGED <<running, hist, sendCh, net>>

\* streamOutput: the next line exceeds the scanner's buffer, scanner.Scan returns
\* false with bufio.ErrTooLong and the loop ends before EOF, wg.Done
ReadTooLong(s, st) ==
    /\ task[s].pc = "stream"
    /\ task[s].reader[st] = "reading"
    /\ task[s].pending[st] = 0
    /\ task[s].long[st]
    /\ task' = [task EXCEPT ![s].reader[st] = "toolong"]
    /\ UNCHANGED <<running, hist, sendCh, net>>

\* The errors cmd.Wait can return. A process ended by a signal or by a non-zero
\* status gives an *exec.ExitError (ExitCode -1 for a signal). For a process that
\* exited with status 0 Wait returns nil, or, when the context had it signalled
\* before it was collected, the context's error (os/exec since Go 1.20).
WaitErrors(t) ==
    IF t.proc = "killed" THEN {[kind |-> "ExitError", code |-> -1]}
    ELSE IF t.code # 0 THEN {[kind |-> "ExitError", code |-> t.code]}
    ELSE IF t.watch THEN {[kind |-> "nil", code |-> 0], [kind |-> "ctx", code |-> 0]}
    ELSE {[kind |-> "nil", code |-> 0]}

\* The exit code executeCommand derives from the error of cmd.Wait
ExitCodeOf(err, ctxErr) ==
    IF err.kind = "nil" THEN 0
    ELSE IF err.kind = "ExitError" THEN err.code
    ELSE IF ctxErr = "deadline" THEN 124
    ELSE 1

\* Mutation of WaitAndComplete: the readers are not waited for
WaitAndCompleteEarly(s) ==
    /\ task[s].pc = "stream"
    /\ task[s].proc \in {"exited", "killed"}
    /\ task' = [task EXCEPT ![s].pc = "deferred"]
    /\ \E err \in WaitErrors(task[s]) : sendComplete(s, ExitCodeOf(err, task[s].ctx))
    /\ UNCHANGED running

\* executeCommand from wg.Wait on: both readers are done, cmd.Wait returns, the
\* exit code is derived and sendComplete called.
WaitAndComplete(s) ==
    /\ task[s].pc = "stream"
    /\ \A st \in Streams : task[s].reader[st] # "reading"
    /\ task[s].proc \in {"exited", "killed"}
    /\ task' = [task EXCEPT ![s].pc = "deferred"]
    /\ \E err \in WaitErrors(task[s]) : sendComplete(s, ExitCodeOf(err, task[s].ctx))
    /\ UNCHANGED running

\* The deferred function of the goroutine: cancel(), delete(running, id). The
\* goroutine ends; its context, its exec.Cmd and its readers are gone.
Cleanup(s) ==
    /\ task[s].pc = "deferred"
    /\ task' = [task EXCEPT ![s] = [NoTask EXCEPT !.pc = "done", !.id = task[s].id]]
    /\ running' = [running EXCEPT ![task[s].id] = NoSlot]
    /\ UNCHANGED <<hist, sendCh, net>>

\* ------------------------------------------------------------------------
\* signing: the canonical message, Signer and Verifier
\* ------------------------------------------------------------------------
MaxMessageAge == 300
FutureTolerance == 30

\* The characters of the model in byte order (sort.Strings compares bytes)
AsciiOrder ==
    << LF, " ", "#", "'", "-", ".", "/",
       "0", "1", "2", "3", "4", "5", "6", "7", "8", "9", "=",
       "A", "H", "P", "R", "T", "X", "_",
       "a", "b", "c", "d", "e", "g", "h", "i", "k", "m", "n", "o", "p", "r",
       "s", "t", "u", "v", "w", "x", "y" >>

CodeOf ==
    [c \in {AsciiOrder[i] : i \in 1..Len(AsciiOrder)} |->
        CHOOSE i \in 1..Len(AsciiOrder) : AsciiOrder[i] = c]

Code(c) == CodeOf[c]

\* a < b for Go strings
RECURSIVE StrLess(_, _)
StrLess(a, b) ==
    IF b = <<>> THEN FALSE
    ELSE IF a = <<>> THEN TRUE
    ELSE IF Head(a) = Head(b) THEN StrLess(Tail(a), Tail(b))
    ELSE Code(Head(a)) < Code(Head(b))

\* sort.Strings
RECURSIVE InsertSorted(_, _)
InsertSorted(sorted, x) ==
    IF sorted = <<>> THEN <<x>>
    ELSE IF StrLess(x, Head(sorted)) THEN <<x>> \o sorted
    ELSE <<Head(sorted)>> \o InsertSorted(Tail(sorted), x)

RECURSIVE SortStrings(_)
SortStrings(parts) ==
    IF parts = <<>> THEN <<>> ELSE InsertSorted(SortStrings(Tail(parts)), Head(parts))

\* The keys of a map as a sorted sequence
RECURSIVE SortedKeys(_)
SortedKeys(keys) ==
    IF keys = {} THEN <<>>
    ELSE LET k == CHOOSE x \in keys : \A y \in keys \ {x} : StrLess(x, y)
         IN  <<k>> \o SortedKeys(keys \ {k})

Digit == <<"0", "1", "2", "3", "4", "5", "6", "7", "8", "9">>

\* fmt.Sprintf("%d", n)
RECURSIVE FormatNat(_)
FormatNat(n) ==
    IF n < 10 THEN <<Digit[n + 1]>> ELSE FormatNat(n \div 10) \o <<Digit[(n % 10) + 1]>>

FormatInt(n) == IF n < 0 THEN <<"-">> \o FormatNat(-n) ELSE FormatNat(n)

IsDigit(c) == \E i \in 1..10 : Digit[i] = c

DigitValue(c) == (CHOOSE i \in 1..10 : Digit[i] = c) - 1

RECURSIVE ParseNat(_)
ParseNat(s) ==
    IF s = <<>> THEN 0
    ELSE 10 * ParseNat(SubSeq(s, 1, Len(s) - 1)) + DigitValue(s[Len(s)])

\* time.Parse: the timestamps of the model are written as a count of seconds
\* (optionally signed); any other text fails to parse.
TimeParses(ts) ==
    LET digits == IF ts # <<>> /\ Head(ts) = "-" THEN Tail(ts) ELSE ts
    IN  digits # <<>> /\ \A i \in 1..Len(digits) : IsDigit(digits[i])

ParseTime(ts) ==
    IF Head(ts) = "-" THEN 0 - ParseNat(Tail(ts)) ELSE ParseNat(ts)

KeyCommand == <<"c", "o", "m", "m", "a", "n", "d", "=">>
KeyID == <<"i", "d", "=">>
KeyNonce == <<"n", "o", "n", "c", "e", "=">>
KeyTimestamp == <<"t", "i", "m", "e", "s", "t", "a", "m", "p", "=">>
KeyType == <<"t", "y", "p", "e", "=">>
KeyWorkingDir == <<"w", "o", "r", "k", "i", "n", "g", "_", "d", "i", "r", "=">>
KeyTimeout == <<"t", "i", "m", "e", "o", "u", "t", "=">>
KeyEnv == <<"e", "n", "v", ".">>
TypeCommand == <<"c", "o", "m", "m", "a", "n", "d">>

\* The env.<NAME>=<VALUE> parts, in the order of the sorted names
EnvParts(env) ==
    LET keys == SortedKeys(DOMAIN env)
    IN  [i \in 1..Len(keys) |-> KeyEnv \o keys[i] \o <<"=">> \o env[keys[i]]]

\* Verifier.createCanonicalMessage
createCanonicalMessage(cmd) ==
    LET parts ==
            << KeyCommand \o cmd.Command,
               KeyID \o cmd.ID,
               KeyNonce \o cmd.Nonce,
               KeyTimestamp \o cmd.Timestamp,
               KeyType \o cmd.Type >>
              \o (IF cmd.WorkingDir # <<>> THEN <<KeyWorkingDir \o cmd.WorkingDir>> ELSE <<>>)
              \o (IF cmd.Timeout > 0 THEN <<KeyTimeout \o FormatInt(cmd.Timeout)>> ELSE <<>>)
              \o EnvParts(cmd.Env)
    IN  Join(SortStrings(parts), <<LF>>)

\* A signature field: absent, not decodable to 64 bytes, or an Ed25519 signature,
\* which is determined by the key that made it and the bytes it was made over.
SigMissing == [form |-> "missing", key |-> "", over |-> <<>>]
SigGarbled == [form |-> "garbled", key |-> "", over |-> <<>>]

\* Signer.SignCommand
SignCommand(key, cmd) == [form |-> "ed25519", key |-> key, over |-> createCanonicalMessage(cmd)]

\* ed25519.Verify
Ed25519Verify(key, message, sig) == sig.key = key /\ sig.over = message

\* A configured public key text: empty, not base64, or the base64 text of len
\* bytes, which for 32 bytes are the public key of owner
PublicKeySize == 32
KeyNone == [form |-> "empty", len |-> 0, owner |-> ""]
PublicKeys ==
    { KeyNone,
      [form |-> "notbase64", len |-> 0, owner |-> ""],
      [form |-> "base64", len |-> PublicKeySize - 1, owner |-> ""],
      [form |-> "base64", len |-> PublicKeySize, owner |-> "server"] }

\* signing.NewVerifier: the verifier, or nil with an error
NilVerifier == [isNil |-> TRUE, enabled |-> FALSE, publicKey |-> ""]
NewVerifier(publicKeyBase64) ==
    IF publicKeyBase64.form = "empty"
    THEN [isNil |-> FALSE, enabled |-> FALSE, publicKey |-> ""]
    ELSE IF publicKeyBase64.form # "base64" THEN NilVerifier
    ELSE IF publicKeyBase64.len # PublicKeySize THEN NilVerifier
    ELSE [isNil |-> FALSE, enabled |-> TRUE, publicKey |-> publicKeyBase64.owner]

\* Verifier.verifySignature: "" or the error
verifySignature(v, cmd) ==
    IF cmd.Signature.form # "ed25519" THEN "ErrInvalidSignature"
    ELSE IF ~Ed25519Verify(v.publicKey, createCanonicalMessage(cmd), cmd.Signature)
         THEN "ErrInvalidSignature"
    ELSE ""

\* validateTimestamp with the two edges of the window rejected
validateTimestampOpenWindow(timestamp, now) ==
    IF ~TimeParses(timestamp) THEN "invalid timestamp format"
    ELSE LET age == now - ParseTime(timestamp)
         IN  IF age <= 0 - FutureTolerance THEN "ErrMessageFromFuture"
             ELSE IF age >= MaxMessageAge THEN "ErrMessageExpired"
             ELSE ""

\* Verifier.validateTimestamp: "" or the error
validateTimestamp(timestamp, now) ==
    IF ~TimeParses(timestamp) THEN "invalid timestamp format"
    ELSE LET age == now - ParseTime(timestamp)
         IN  IF age < 0 - FutureTolerance THEN "ErrMessageFromFuture"
             ELSE IF age > MaxMessageAge THEN "ErrMessageExpired"
             ELSE ""

\* Mutation of VerifyCommand: the timestamp window is not checked
VerifyCommandAnyTime(v, frame, now) ==
    IF frame.json # "ok" THEN "unmarshal error"
    ELSE IF frame.cmd.Signature.form = "missing" THEN "ErrMissingSignature"
    ELSE IF frame.cmd.Timestamp = <<>> THEN "ErrMissingTimestamp"
    ELSE IF frame.cmd.Nonce = <<>> THEN "ErrMissingNonce"
    ELSE verifySignature(v, frame.cmd)

\* Verifier.VerifyCommand on a frame, for an enabled verifier: "" or the error.
\* A frame is [json, cmd]: json tells whether the text unmarshals into a
\* SignedCommand ("ok"), is no JSON at all ("invalid"), or is JSON with a field
\* of the wrong type, the id ("mistyped_id") or another one ("mistyped").
VerifyCommand(v, frame, now) ==
    IF frame.json # "ok" THEN "unmarshal error"
    ELSE IF frame.cmd.Signature.form = "missing" THEN "ErrMissingSignature"
    ELSE IF frame.cmd.Timestamp = <<>> THEN "ErrMissingTimestamp"
    ELSE IF frame.cmd.Nonce = <<>> THEN "ErrMissingNonce"
    ELSE IF validateTimestamp(frame.cmd.Timestamp, now) # ""
         THEN validateTimestamp(frame.cmd.Timestamp, now)
    ELSE verifySignature(v, frame.cmd)

\* signing.SignedCommand, and its zero value
SignedCommand(id, command, dir, env, timeout, timestamp, nonce, signature) ==
    [Type |-> TypeCommand, ID |-> id, Command |-> command, WorkingDir |-> dir,
     Env |-> env, Timeout |-> timeout, Timestamp |-> timestamp, Nonce |-> nonce,
     Signature |-> signature]

ZeroSignedCommand ==
    [Type |-> <<>>, ID |-> <<>>, Command |-> <<>>, WorkingDir |-> <<>>,
     Env |-> <<>>, Timeout |-> 0, Timestamp |-> <<>>, Nonce |-> <<>>,
     Signature |-> SigMissing]

\* Signer.CreateSignedCommand, with the timestamp given
CreateSignedCommand(key, id, command, dir, env, timeout, timestamp, nonce) ==
    LET cmd == SignedCommand(id, command, dir, env, timeout, timestamp, nonce, SigMissing)
    IN  [cmd EXCEPT !.Signature = SignCommand(key, cmd)]

\* messages.ParseCommandMessage: TRUE iff the frame unmarshals
ParsesAsCommand(frame) == frame.json = "ok"

\* The CommandMessage the router builds from the parsed frame
CommandMessage(c) == Cmd(c.ID, c.Command, c.WorkingDir, c.Env, c.Timeout)

\* router.extractCommandID: the id, or "" when the frame does not unmarshal into
\* a struct with a string id
extractCommandID(frame) ==
    IF frame.json \in {"ok", "mistyped"} THEN frame.cmd.ID ELSE <<>>

\* ------------------------------------------------------------------------
\* router.Router and signing.Verifier: state
\* ------------------------------------------------------------------------
VARIABLES
    publicKey,    \* the public key text given to NewRouter
    verifier,     \* Router.verifier
    clock,        \* time.Now, in seconds
    lastRouted,   \* history: how each command reached the executor ("verified"
                  \* or "unverified"), and the frames the latest handleCommand
                  \* handed to the send function itself
    connected,    \* TRUE while runConnection drains the queue
    canon         \* a command signed by the server's Signer, and the outcome
                  \* of verifySignature on a command carrying that signature

routerVars == <<publicKey, verifier, clock, lastRouted, connected>>

VARIABLES
    agent,        \* main: its cancellable context and how far main has got
    mgr,          \* the connection Manager: its fields, the position of
                  \* connectionLoop, the connections dialed and the readLoop
                  \* goroutines, with the history of what was slept, written
                  \* and dispatched
    dedup         \* the log monitor's Deduplicator

agentVars == <<agent, mgr, dedup>>

VARIABLES
    matcher,      \* a logmonitor.Matcher, with the lines it was given and the
                  \* matches it handed to its handler
    tailer,       \* a logmonitor.Tailer and the files of its path, with the
                  \* lines it handed to its handler
    monitor       \* the logmonitor.Monitor of the router: its config store, its
                  \* app monitors and the apps of the discovery provider

logVars == <<matcher, tailer, monitor>>

vars == <<allowedPaths, denyPatterns, lastApps, lastValidation, calls,
          task, running, hist, handlers, sendCh, net,
          publicKey, verifier, clock, lastRouted, connected, canon,
          agent, mgr, dedup, matcher, tailer, monitor>>

NoRouted == [via |-> [s \in Slots |-> "none"], sends |-> <<>>]

\* The state of the parts a specification does not exercise
ValidatorIdle == NewValidatorState

ExecutorIdle ==
    /\ task = [s \in Slots |-> NoTask]
    /\ running = [id \in ExecIds |-> NoSlot]
    /\ hist = [s \in Slots |-> NoHist]

SinkIdle(h) ==
    /\ handlers = h
    /\ sendCh = <<>>
    /\ net = [s \in Slots |-> NoNet]

RouterIdle ==
    /\ publicKey = KeyNone
    /\ verifier = NewVerifier(KeyNone)
    /\ clock = 0
    /\ lastRouted = NoRouted
    /\ connected = FALSE

NoCanon ==
    [phase |-> "idle", cmd |-> ZeroSignedCommand, rcvd |-> ZeroSignedCommand, err |-> ""]

CanonIdle == canon = NoCanon

\* main before a shutdown signal: its context is live, main waits on sigCh
NoAgent == [ctx |-> "active", pc |-> "waiting"]

\* Reconnection settings of the connection package, in seconds
InitialDelay == 1
MaxDelay == 30
Multiplier == 2

\* The connections the model lets the dialer establish
Conns == 1..MaxConns
NoConn == 0

\* A connection: how far its handshake got ("none": not dialed, "pending",
\* "ok": auth_ok was read, "failed"), whether the agent closed it, and whether
\* the supervisor has left it (connect failed on it or runConnection returned)
FreshConn == [hs |-> "none", closed |-> FALSE, torn |-> FALSE]

\* connection.NewManager: state disconnected, no connection, an empty queue
\* (sendCh), doneCh open; connectionLoop is not started. readers[c] is the
\* connection on which the readLoop goroutine started for connection c is
\* reading (NoConn: no such goroutine). The other fields are history.
NewManager ==
    [state |-> "disconnected", conn |-> NoConn, doneCh |-> "open",
     pc |-> "idle", delay |-> InitialDelay,
     conns |-> [c \in Conns |-> FreshConn],
     readers |-> [c \in Conns |-> NoConn],
     fails |-> 0, rested |-> TRUE,
     slept |-> [k |-> 0, d |-> 0],
     handled |-> [from |-> NoConn, hs |-> "none", torn |-> FALSE, state |-> ""],
     wrote |-> [born |-> 0, gen |-> 0]]

\* logmonitor.NewDeduplicator
DefaultRateWindow == 300
DefaultMaxPerWindow == 5
Signatures == {"s1", "s2"}
NoEntry == [found |-> FALSE, WindowStart |-> 0, WindowCount |-> 0,
            OccurrenceCount |-> 0, LastSeen |-> 0, emitted |-> 0, times |-> <<>>]
NoSighting == [hash |-> "", emit |-> FALSE, found |-> FALSE, expired |-> FALSE,
               emitted |-> 0, max |-> 0]

\* entries[h].emitted (how many sightings of h were emitted in its current
\* window), entries[h].times (when the sightings of h were emitted), last (the
\* latest ShouldEmit call) and steady (the window and the maximum were not
\* changed since a sighting was first recorded) are history
NewDeduplicator ==
    [entries |-> [h \in Signatures |-> NoEntry],
     rateWindow |-> DefaultRateWindow, maxPerWindow |-> DefaultMaxPerWindow,
     now |-> 0, last |-> NoSighting, steady |-> TRUE]

AgentIdle ==
    /\ agent = NoAgent
    /\ mgr = NewManager
    /\ dedup = NewDeduplicator

\* logmonitor.Match, with the number of the error line among the lines the
\* matcher was given
NoMatch ==
    [Source |-> "", ErrorLine |-> <<>>, ContextBefore |-> <<>>, ContextAfter |-> <<>>,
     at |-> 0]

DefaultContextLines == 20

\* logmonitor.NewMatcher(patterns, contextLines, handler), the handler one that
\* records the matches it is called with in the field handled. The field lines
\* is the history of the ProcessLine calls, each with the patterns and the
\* context_lines of its moment and the number of lines given since the ring
\* buffer was made
NewMatcher(patterns, contextLines) ==
    LET n == IF contextLines <= 0 THEN DefaultContextLines ELSE contextLines
    IN  [patterns |-> patterns, contextLines |-> n,
         buffer |-> [i \in 0..(n - 1) |-> <<>>], bufferPos |-> 0, bufferCount |-> 0,
         capturing |-> FALSE, captureMatch |-> NoMatch, captureAfterCount |-> 0,
         lines |-> <<>>, since |-> 0, handled |-> <<>>, updates |-> 0,
         op |-> "NewMatcher"]

ErrorPatterns == { <<"X">> }

\* The files of the tailed path: NoFile is no file, a tailer without an open
\* file or a path no file has
NoFile == 0
FileIds == 1..MaxFiles
NotMade == [made |-> FALSE, content |-> <<>>, mtime |-> 0, rotated |-> FALSE, cut |-> FALSE]

\* logmonitor.NewTailer(path, handler) and Start: at is the file the path names,
\* files the files made so far, now the clock of the file system, first the
\* file Start opened and its size then
NewTailer ==
    [file |-> NoFile, offset |-> 0, position |-> 0, inode |-> 0,
     at |-> NoFile, files |-> [f \in FileIds |-> NotMade], now |-> 0,
     emitted |-> <<>>, writes |-> 0, moved |-> FALSE,
     first |-> [file |-> NoFile, size |-> 0],
     last |-> [op |-> "Start", shrunk |-> FALSE]]

\* logmonitor.Config and the empty entry of the ConfigStore
NoConfig == [present |-> FALSE, AppPath |-> <<>>, LogPaths |-> <<>>]

Repos == { <<"o", "/", "r">>, <<"o", "/", "s">> }
MonitorPaths == { <<"/", "a">>, <<"/", "p">> }
NoAppMonitor == [running |-> FALSE, repo |-> <<>>, tailers |-> {}]
NoUpdate == [op |-> "", msg |-> <<>>, tailed |-> {}]

\* A handleMatch call in progress in the goroutine of an app's tailer: the
\* signature of its error line; decided, the OccurrenceCount ShouldEmit left
\* when it decided, is history
NoHandling == [pc |-> "idle", hash |-> "", decided |-> 0]

\* logmonitor.NewMonitor(send, discovery) with the discoveryProvider of
\* NewRouter: apps are the apps of the provider, running the tailers started
\* and not stopped, last and prev the last two frames handled
NewMonitor ==
    [apps |-> <<>>,
     configs |-> [r \in Repos |-> NoConfig],
     appMonitors |-> [p \in MonitorPaths |-> NoAppMonitor],
     running |-> {}, updates |-> 0,
     last |-> NoUpdate, prev |-> NoUpdate,
     handling |-> [p \in MonitorPaths |-> NoHandling], events |-> <<>>]

LogIdle ==
    /\ matcher = NewMatcher(ErrorPatterns, 1)
    /\ tailer = NewTailer
    /\ monitor = NewMonitor


\* ------------------------------------------------------------------------
\* Specification of the validator: UpdateApps and ValidateCommand calls
\* ------------------------------------------------------------------------
ValidatorInit ==
    /\ NewValidatorState
    /\ ExecutorIdle /\ SinkIdle("recording") /\ RouterIdle /\ CanonIdle /\ AgentIdle /\ LogIdle

DoUpdateApps ==
    /\ \E apps \in AppLists : UpdateApps(apps)
    /\ UNCHANGED <<executorVars, sinkVars, routerVars, canon, agentVars, logVars>>

DoValidate ==
    /\ \E cmd \in ValidatorInputs : Validate(cmd)
    /\ UNCHANGED <<executorVars, sinkVars, routerVars, canon, agentVars, logVars>>

ValidatorNext ==
    \/ DoUpdateApps
    \/ DoValidate

ValidatorSpec == ValidatorInit /\ [][ValidatorNext]_vars

\* ------------------------------------------------------------------------
\* Specification of the executor, built as its tests build it: a validator in
\* its initial state and handlers that record their calls
\* ------------------------------------------------------------------------
ExecInputs ==
    { Cmd(<<"a">>, <<"x">>, <<>>, NoEnv, 1),
      Cmd(<<"b">>, <<"x">>, <<>>, NoEnv, -1),
      Cmd(<<"a">>, <<"r">>, <<>>, NoEnv, 0),
      Cmd(<<"b">>, <<"x">>, <<>>, NoEnv, MaxTimeout + 1) }

\* What a step of the executor leaves alone
ExecutorFrame == UNCHANGED <<validatorVars, handlers, routerVars, canon, agentVars, logVars>>

DoExecute == ExecutorFrame /\ \E cmd \in ExecInputs : Execute(cmd)
DoSpawnFail == ExecutorFrame /\ \E s \in Slots : SpawnFail(s)
DoSpawnOk == ExecutorFrame /\ \E s \in Slots : SpawnOk(s)
DoProcWrite == ExecutorFrame /\ \E s \in Slots, st \in Streams : ProcWrite(s, st)
DoProcWriteLong == ExecutorFrame /\ \E s \in Slots, st \in Streams : ProcWriteLong(s, st)
DoProcExit == ExecutorFrame /\ \E s \in Slots, code \in OwnExitCodes : ProcExit(s, code)
DoTimerFire == ExecutorFrame /\ \E s \in Slots : TimerFire(s)
DoCancel == ExecutorFrame /\ \E id \in ExecIds : Cancel(id)
DoCtxKill == ExecutorFrame /\ \E s \in Slots : CtxKill(s)
DoReadLine == ExecutorFrame /\ \E s \in Slots, st \in Streams : ReadLine(s, st)
DoReadEOF == ExecutorFrame /\ \E s \in Slots, st \in Streams : ReadEOF(s, st)
DoReadTooLong == ExecutorFrame /\ \E s \in Slots, st \in Streams : ReadTooLong(s, st)
DoWaitAndComplete == ExecutorFrame /\ \E s \in Slots : WaitAndComplete(s)
DoCleanup == ExecutorFrame /\ \E s \in Slots : Cleanup(s)

ExecInit ==
    /\ NewValidatorState
    /\ ExecutorIdle /\ SinkIdle("recording") /\ RouterIdle /\ CanonIdle /\ AgentIdle /\ LogIdle

ExecNext ==
    \/ DoExecute
    \/ DoSpawnFail
    \/ DoSpawnOk
    \/ DoProcWrite
    \/ DoProcWriteLong
    \/ DoProcExit
    \/ DoTimerFire
    \/ DoCancel
    \/ DoCtxKill
    \/ DoReadLine
    \/ DoReadEOF
    \/ DoReadTooLong
    \/ DoWaitAndComplete
    \/ DoCleanup

ExecSpec == ExecInit /\ [][ExecNext]_vars

\* ------------------------------------------------------------------------
\* Specification of the signature scheme: the server signs one command, and a
\* verifier holding the server's key runs verifySignature on a command that
\* carries the signature
\* ------------------------------------------------------------------------
EnvOfK(value) == [n \in { <<"k">> } |-> value]

CanonIDs == { <<"a">>, <<"b">> }
CanonCommandTexts == { <<"x">>, <<"x", LF, "e", "n", "v", ".", "k", "=", "y">> }
CanonDirs == { <<>>, <<"/", "w">> }
CanonEnvs == { NoEnv, EnvOfK(<<"y">>) }
CanonTimeouts == {-1, 0, 5}
CanonTimestamps == { <<"0">>, <<"1">> }
CanonNonces == { <<"n">>, <<"m">> }

CanonCommands ==
    { SignedCommand(id, c, d, e, t, ts, n, SigMissing) :
        id \in CanonIDs, c \in CanonCommandTexts, d \in CanonDirs, e \in CanonEnvs,
        t \in CanonTimeouts, ts \in CanonTimestamps, n \in CanonNonces }

ServerVerifier == NewVerifier([form |-> "base64", len |-> PublicKeySize, owner |-> "server"])

\* The server signs cmd
Sign(cmd) ==
    /\ canon.phase = "idle"
    /\ canon' = [phase |-> "signed",
                 cmd |-> [cmd EXCEPT !.Signature = SignCommand("server", cmd)],
                 rcvd |-> ZeroSignedCommand, err |-> ""]

\* The verifier is given rcvd with the signature made for canon.cmd
Verify(rcvd) ==
    /\ canon.phase = "signed"
    /\ LET got == [rcvd EXCEPT !.Signature = canon.cmd.Signature]
       IN  canon' = [canon EXCEPT !.phase = "verified", !.rcvd = got,
                                  !.err = verifySignature(ServerVerifier, got)]

CanonFrame == UNCHANGED <<validatorVars, executorVars, sinkVars, routerVars, agentVars, logVars>>

DoSign == CanonFrame /\ \E cmd \in CanonCommands : Sign(cmd)
DoVerify == CanonFrame /\ \E rcvd \in CanonCommands : Verify(rcvd)

CanonInit ==
    /\ NewValidatorState
    /\ ExecutorIdle /\ SinkIdle("recording") /\ RouterIdle /\ CanonIdle /\ AgentIdle /\ LogIdle

CanonNext ==
    \/ DoSign
    \/ DoVerify

CanonSpec == CanonInit /\ [][CanonNext]_vars

\* ------------------------------------------------------------------------
\* Specification of the router: NewRouter with a public key text, command
\* frames read from the connection, the executor with the router's handlers,
\* and the outbound queue drained while a connection runs
\* ------------------------------------------------------------------------

\* router.NewRouter(send, publicKey)
NewRouter(key) ==
    /\ publicKey = key
    /\ verifier = NewVerifier(key)
    /\ NewValidatorState
    /\ ExecutorIdle
    /\ SinkIdle("router")
    /\ lastRouted = NoRouted

\* Router.handleCommand: the frame fails verification
HandleUnverifiable(frame, err) ==
    LET cmdID == extractCommandID(frame)
        rejection == RejectedFrame(NoSlot, cmdID, "SIGNATURE_INVALID")
    IN  /\ IF cmdID # <<>>
           THEN RouterHandle(rejection)
           ELSE UNCHANGED <<sendCh, net>>
        /\ lastRouted' = [lastRouted EXCEPT
                              !.sends = IF cmdID # <<>> THEN <<rejection>> ELSE <<>>]
        /\ UNCHANGED executorVars

\* Router.handleCommand: the command is handed to the executor
HandleExecute(cmd, verdict) ==
    /\ Execute(cmd)
    /\ lastRouted' = [lastRouted EXCEPT !.via[NextSlot] = verdict, !.sends = <<>>]

\* handleCommand with a ledger of the ids seen: a verified frame whose id was
\* handed to the executor before is turned down
handleCommandOnce(frame) ==
    /\ connected
    /\ IF ~verifier.isNil /\ verifier.enabled
       THEN LET err == VerifyCommand(verifier, frame, clock)
            IN  IF err # "" THEN HandleUnverifiable(frame, err)
                ELSE IF \E s \in Slots : task[s].pc # "none" /\ task[s].id = frame.cmd.ID
                     THEN HandleUnverifiable(frame, "replayed")
                ELSE HandleExecute(CommandMessage(frame.cmd), "verified")
       ELSE IF ~ParsesAsCommand(frame)
            THEN /\ lastRouted' = [lastRouted EXCEPT !.sends = <<>>]
                 /\ UNCHANGED <<executorVars, sendCh, net>>
            ELSE HandleExecute(CommandMessage(frame.cmd), "unverified")

\* Router.handleCommand(data), reached from readLoop while a connection runs
handleCommand(frame) ==
    /\ connected
    /\ IF ~verifier.isNil /\ verifier.enabled
       THEN LET err == VerifyCommand(verifier, frame, clock)
            IN  IF err # "" THEN HandleUnverifiable(frame, err)
                ELSE HandleExecute(CommandMessage(frame.cmd), "verified")
       ELSE IF ~ParsesAsCommand(frame)
            THEN /\ lastRouted' = [lastRouted EXCEPT !.sends = <<>>]
                 /\ UNCHANGED <<executorVars, sendCh, net>>
            ELSE HandleExecute(CommandMessage(frame.cmd), "unverified")

\* connectionLoop: connect succeeds, runConnection starts
Connect ==
    /\ ~connected
    /\ connected' = TRUE

\* runConnection returns: the read loop ended
Disconnect ==
    /\ connected
    /\ connected' = FALSE

\* runConnection takes a frame from the queue and writes it
WriteFrame ==
    /\ connected
    /\ sendCh # <<>>
    /\ sendCh' = Tail(sendCh)
    /\ net' = IF IsTerminal(Head(sendCh)) /\ Head(sendCh).slot # NoSlot
              THEN [net EXCEPT ![Head(sendCh).slot].wired = @ + 1]
              ELSE net
    /\ UNCHANGED connected

\* runConnection takes a frame from the queue, the write fails: the frame is
\* gone and runConnection returns
WriteFrameFails ==
    /\ connected
    /\ sendCh # <<>>
    /\ sendCh' = Tail(sendCh)
    /\ net' = IF IsTerminal(Head(sendCh)) /\ Head(sendCh).slot # NoSlot
              THEN [net EXCEPT ![Head(sendCh).slot].lost = @ + 1]
              ELSE net
    /\ connected' = FALSE

\* Another producer (the log pipeline, handleDiscover) calls Manager.Send
OtherFrame == [type |-> "other", slot |-> NoSlot, id |-> <<>>, info |-> ""]

OtherSend ==
    /\ sendCh' = Send(sendCh, OtherFrame)
    /\ UNCHANGED <<net, connected>>

\* Command frames the server, or somebody else, puts on the connection
Frame(json, cmd) == [json |-> json, cmd |-> cmd]

FrameCommand(id, command, timestamp, nonce) ==
    SignedCommand(id, command, <<>>, NoEnv, 0, timestamp, nonce, SigMissing)

CommandA(timestamp, nonce) == FrameCommand(<<"a">>, <<"x">>, timestamp, nonce)
CommandB(timestamp, nonce) == FrameCommand(<<"b">>, <<"r">>, timestamp, nonce)

Signed(key, cmd) == [cmd EXCEPT !.Signature = SignCommand(key, cmd)]

\* Timestamps at the edges of the accepted window and just outside it
OldestAccepted == <<"-">> \o FormatNat(MaxMessageAge)
Expired == <<"-">> \o FormatNat(MaxMessageAge + 1)
LatestAccepted == FormatNat(FutureTolerance)
FromFuture == FormatNat(FutureTolerance + 1)

RouterFrames ==
    { Frame("ok", Signed("server", CommandA(<<"0">>, <<"n">>))),
      Frame("ok", Signed("server", CommandB(<<"0">>, <<"n">>))),
      Frame("ok", Signed("server", CommandA(OldestAccepted, <<"n">>))),
      Frame("ok", Signed("server", CommandB(LatestAccepted, <<"n">>))),
      Frame("ok", Signed("server", CommandA(Expired, <<"n">>))),
      Frame("ok", Signed("server", CommandB(FromFuture, <<"n">>))),
      Frame("ok", Signed("server", CommandA(<<"x">>, <<"n">>))),
      Frame("ok", Signed("server", CommandA(<<>>, <<"n">>))),
      Frame("ok", Signed("server", CommandA(<<"0">>, <<>>))),
      Frame("ok", CommandA(<<"0">>, <<"n">>)),
      Frame("ok", [CommandA(<<"0">>, <<"n">>) EXCEPT !.Signature = SigGarbled]),
      Frame("ok", Signed("other", CommandA(<<"0">>, <<"n">>))),
      Frame("ok", [Signed("server", CommandB(<<"0">>, <<"n">>)) EXCEPT !.Command = <<"x">>]),
      Frame("ok", Signed("other", FrameCommand(<<>>, <<"x">>, <<"0">>, <<"n">>))),
      Frame("mistyped", Signed("server", CommandA(<<"0">>, <<"n">>))),
      Frame("invalid", ZeroSignedCommand) }

RouterFrame ==
    UNCHANGED <<validatorVars, handlers, publicKey, verifier, clock, canon, agentVars, logVars>>

DoHandleCommand ==
    /\ RouterFrame /\ UNCHANGED connected
    /\ \E frame \in RouterFrames : handleCommand(frame)

DoConnect == RouterFrame /\ Connect /\ UNCHANGED <<executorVars, sendCh, net, lastRouted>>
DoDisconnect == RouterFrame /\ Disconnect /\ UNCHANGED <<executorVars, sendCh, net, lastRouted>>
DoWriteFrame == RouterFrame /\ WriteFrame /\ UNCHANGED <<executorVars, lastRouted>>
DoWriteFrameFails == RouterFrame /\ WriteFrameFails /\ UNCHANGED <<executorVars, lastRouted>>
DoOtherSend == RouterFrame /\ OtherSend /\ UNCHANGED <<executorVars, lastRouted>>

\* The steps of the tasks the executor runs for the router: subprocesses that
\* write nothing and end on their own with status 0
TaskFrame == RouterFrame /\ UNCHANGED <<lastRouted, connected>>

DoTaskSpawnFail == TaskFrame /\ \E s \in Slots : SpawnFail(s)
DoTaskSpawnOk == TaskFrame /\ \E s \in Slots : SpawnOk(s)
DoTaskExit == TaskFrame /\ \E s \in Slots : ProcExit(s, 0)
DoTaskReadEOF == TaskFrame /\ \E s \in Slots, st \in Streams : ReadEOF(s, st)
DoTaskComplete == TaskFrame /\ \E s \in Slots : WaitAndComplete(s)
DoTaskCleanup == TaskFrame /\ \E s \in Slots : Cleanup(s)

RouterInit ==
    /\ \E key \in PublicKeys : NewRouter(key)
    /\ clock = 0
    /\ connected = FALSE
    /\ CanonIdle /\ AgentIdle /\ LogIdle

RouterNext ==
    \/ DoHandleCommand
    \/ DoConnect
    \/ DoDisconnect
    \/ DoWriteFrame
    \/ DoWriteFrameFails
    \/ DoOtherSend
    \/ DoTaskSpawnFail
    \/ DoTaskSpawnOk
    \/ DoTaskExit
    \/ DoTaskReadEOF
    \/ DoTaskComplete
    \/ DoTaskCleanup

RouterSpec == RouterInit /\ [][RouterNext]_vars

\* ------------------------------------------------------------------------
\* Claims about the validator (checked under ValidatorSpec)
\* ------------------------------------------------------------------------

\* A line of the command as the policy describes it: non-empty, not a comment
\* line, and matched by a deny pattern in its original or lowercased form once
\* its inline comment is stripped.
DeniableLine(line) ==
    /\ line # <<>>
    /\ ~HasPrefix(line, <<"#">>)
    /\ \E i \in 1..Len(denyPatterns) :
          \/ MatchString(denyPatterns[i], stripInlineComments(line))
          \/ MatchString(denyPatterns[i], ToLower(stripInlineComments(line)))

HasDeniableLine(command) ==
    LET lines == Split(command, LF)
    IN  \E i \in 1..Len(lines) : DeniableLine(lines[i])

\* C4: a command that passes the checks made before the deny check and has at
\* least one non-empty, non-comment line matching a deny pattern is refused with
\* COMMAND_DENIED, whatever its other lines are, a leading comment line included.
C4_DeniedWhenAnyLineMatches ==
    (/\ lastValidation.called
     /\ lastValidation.result \in {"OK", "COMMAND_DENIED"}
     /\ HasDeniableLine(lastValidation.cmd.Command))
        => lastValidation.result = "COMMAND_DENIED"

\* TRUE iff the cleaned directory is prefixed by the cleaned path of an app
UnderSomeApp(dir, apps) ==
    \E i \in 1..Len(apps) : HasPrefix(Clean(dir), Clean(apps[i].Path))

\* C6: after UpdateApps(S), the empty S included, a non-empty traversal-free
\* working directory is accepted if and only if its cleaned form is prefixed by
\* the cleaned path of some app of S.
C6_AcceptedIffUnderSomeApp ==
    (/\ lastApps.called
     /\ lastValidation.called
     /\ lastValidation.cmd.Timeout <= MaxTimeout
     /\ lastValidation.cmd.WorkingDir # <<>>
     /\ ~containsPathTraversal(lastValidation.cmd.WorkingDir))
        => (lastValidation.result \notin {"PATH_TRAVERSAL", "INVALID_WORKING_DIR"}
              <=> UnderSomeApp(lastValidation.cmd.WorkingDir, lastApps.apps))

\* The same, for the calls UpdateApps(S) with a non-empty S
C6_NonEmptyApps ==
    (lastApps.called /\ lastApps.apps # <<>>) => C6_AcceptedIffUnderSomeApp

\* ------------------------------------------------------------------------
\* Claims about the executor (checked under ExecSpec)
\* ------------------------------------------------------------------------

\* A step the executor takes for the task of slot s by itself, whatever the
\* subprocess and the timer do
ForcedStep(s) ==
    \/ SpawnFail(s)
    \/ CtxKill(s)
    \/ \E st \in Streams : ReadLine(s, st) \/ ReadEOF(s, st) \/ ReadTooLong(s, st)
    \/ WaitAndComplete(s)
    \/ Cleanup(s)

Started(s) == task[s].pc \in {"exec", "stream", "deferred", "done"}

C5_RejectedState(s) ==
    /\ hist[s].rejects = 1
    /\ hist[s].rejId = task[s].id
    /\ hist[s].rejCode \in {"COMMAND_DENIED", "TIMEOUT_TOO_LONG"}
    /\ hist[s].outputs = 0
    /\ hist[s].completes = 0
    /\ task[s].proc = "none"
    /\ task[s].ctx = "none"
    /\ \A id \in ExecIds : running[id] # s

C5_RejectingStep(cmd) ==
    LET s == NextSlot
    IN  /\ hist'[s].rejects = 1
        /\ hist'[s].rejId = cmd.ID
        /\ hist'[s].rejCode \in ValidateCommand(cmd)
        /\ task'[s].pc = "rejected"
        /\ running' = running

\* C5: when ValidateCommand fails for a command, Execute calls the rejected
\* handler exactly once with the command's id and the validator's code and
\* returns the error; no subprocess is started, no entry is added to the running
\* map, and no output or complete is ever emitted for the command.
C5_RejectionIsFinal ==
    /\ [](\A s \in Slots : task[s].pc = "rejected" => C5_RejectedState(s))
    /\ [](\A s \in Slots : Started(s) => hist[s].rejects = 0)
    /\ [][\A cmd \in ExecInputs :
            (Execute(cmd) /\ "OK" \notin ValidateCommand(cmd)) => C5_RejectingStep(cmd)]_vars

C5_Witness ==
    \E s \in Slots, t \in Slots :
        /\ task[s].pc = "rejected" /\ hist[s].rejCode = "COMMAND_DENIED"
        /\ task[t].pc = "done" /\ task[t].id = task[s].id

\* C7 as stated: a complete on a path where the subprocess was started is only
\* emitted when both readers have reached EOF.
C7_CompleteOnlyAfterBothEOF ==
    \A s \in Slots :
        (task[s].pc = "deferred" /\ task[s].proc # "none")
            => \A st \in Streams : task[s].reader[st] = "eof"

C7_TaskState(s) ==
    /\ hist[s].completes <= 1
    /\ task[s].pc \in {"exec", "stream"} => hist[s].completes = 0
    /\ task[s].pc \in {"deferred", "done"} => hist[s].completes = 1
    /\ (task[s].pc = "deferred" /\ task[s].proc # "none") =>
          \A st \in Streams :
              /\ task[s].reader[st] \in {"eof", "toolong"}
              /\ task[s].pending[st] = 0
    /\ (task[s].pc = "deferred" /\ task[s].proc = "none") => hist[s].exit = 1
    /\ task[s].pc \in {"exec", "stream", "deferred"} =>
          ENABLED (ForcedStep(s) \/ TimerFire(s))

\* C7 (amended): for every command that passes validation the complete handler
\* is called exactly once on every path, and only after both readers have
\* returned, each at EOF or at a line that exceeds the scanner's buffer; no
\* output for the command is emitted after its complete. Until the complete and
\* the cleanup are done, the task always has a step to take that does not depend
\* on the subprocess.
C7_ExactlyOneCompleteAfterReaders ==
    /\ [](\A s \in Slots : Started(s) => C7_TaskState(s))
    /\ [][\A s \in Slots :
            /\ hist[s].completes = 1 =>
                  (hist'[s].outputs = hist[s].outputs /\ hist'[s].completes = 1)
            /\ hist'[s].completes > hist[s].completes =>
                  (task[s].pc = "exec" \/ \A st \in Streams : task[s].reader[st] # "reading")]_vars

C7_Witness ==
    \E s \in Slots :
        /\ task[s].pc = "deferred"
        /\ hist[s].completes = 1
        /\ hist[s].outputs = 1
        /\ task[s].reader["stdout"] = "eof"
        /\ task[s].reader["stderr"] = "eof"

\* C9 as stated: a command whose subprocess is killed because its timeout
\* expired completes with exit code 124.
C9_TimeoutExitCode124 ==
    \A s \in Slots :
        (task[s].pc = "deferred" /\ task[s].ctx = "deadline" /\ task[s].proc = "killed")
            => hist[s].exit = 124

C10_CancelledState(s) ==
    /\ hist[s].completes <= 1
    /\ task[s].pc \in {"exec", "stream"} => hist[s].completes = 0
    /\ task[s].pc \in {"deferred", "done"} => hist[s].completes = 1
    /\ task[s].pc = "deferred" =>
          \/ hist[s].exit # 0
          \/ task[s].proc = "exited" /\ task[s].code = 0
    /\ task[s].pc \in {"exec", "stream", "deferred"} => ENABLED ForcedStep(s)

\* A subprocess is only killed when its own context is done, and a context is
\* only cancelled by a Cancel of its own command
C10_KilledOnlyByOwnContext(s) ==
    /\ task[s].proc = "killed" => task[s].ctx \in {"canceled", "deadline"}
    /\ task[s].ctx = "canceled" => hist[s].cancelled

DifferInSignedField(c, d) ==
    \/ c.ID # d.ID
    \/ c.Command # d.Command
    \/ c.WorkingDir # d.WorkingDir
    \/ c.Env # d.Env
    \/ c.Timeout # d.Timeout
    \/ c.Timestamp # d.Timestamp
    \/ c.Nonce # d.Nonce

\* C3: when two commands differ in at least one of id, command, working_dir,
\* env, timeout, timestamp or nonce, their canonical messages differ and the
\* signature made for the one does not verify for the other.
C3_SignatureBindsEveryField ==
    (canon.phase = "verified" /\ DifferInSignedField(canon.cmd, canon.rcvd))
        => /\ createCanonicalMessage(canon.cmd) # createCanonicalMessage(canon.rcvd)
           /\ canon.err # ""

\* The same for two commands that differ in id, timestamp or nonce
C3_BindsIdTimestampNonce ==
    (/\ canon.phase = "verified"
     /\ \/ canon.cmd.ID # canon.rcvd.ID
        \/ canon.cmd.Timestamp # canon.rcvd.Timestamp
        \/ canon.cmd.Nonce # canon.rcvd.Nonce)
        => canon.err # ""

\* ------------------------------------------------------------------------
\* Claims about the router (checked under RouterSpec)
\* ------------------------------------------------------------------------

\* C1: a command is handed to the executor without signature verification only
\* when no public key is configured; with a key configured that cannot be loaded
\* no command reaches the executor unverified.
C1_UnverifiedOnlyWithoutKey ==
    \A s \in Slots : lastRouted.via[s] = "unverified" => publicKey = KeyNone

\* A frame that is not a readable command signed by the holder of the
\* verifier's key over its own fields, with a nonce and a timestamp inside the
\* window
FailsVerification(frame) ==
    \/ frame.json # "ok"
    \/ frame.cmd.Signature.form # "ed25519"
    \/ frame.cmd.Timestamp = <<>>
    \/ frame.cmd.Nonce = <<>>
    \/ ~TimeParses(frame.cmd.Timestamp)
    \/ clock - ParseTime(frame.cmd.Timestamp) > MaxMessageAge
    \/ ParseTime(frame.cmd.Timestamp) - clock > FutureTolerance
    \/ frame.cmd.Signature.key # verifier.publicKey
    \/ frame.cmd.Signature.over # createCanonicalMessage(frame.cmd)

C2_RejectionOf(frame) == RejectedFrame(NoSlot, extractCommandID(frame), "SIGNATURE_INVALID")

C2_FailedStep(frame) ==
    /\ UNCHANGED <<task, running, hist, net>>
    /\ lastRouted'.via = lastRouted.via
    /\ IF extractCommandID(frame) # <<>>
       THEN /\ lastRouted'.sends = <<C2_RejectionOf(frame)>>
            /\ sendCh' = Send(sendCh, C2_RejectionOf(frame))
       ELSE /\ lastRouted'.sends = <<>>
            /\ sendCh' = sendCh

\* C2: with the verifier enabled, handling a command frame that fails
\* verification for any reason starts no task and no subprocess and produces no
\* output or complete; the router hands exactly one rejected message to its send
\* function, with the frame's id and code SIGNATURE_INVALID, if the id can be
\* extracted, and nothing otherwise. Every command the executor is given was
\* verified.
C2_FailedVerificationOnlyRejects ==
    /\ [](verifier.enabled =>
            /\ \A s \in Slots :
                  task[s].pc # "none" <=> lastRouted.via[s] = "verified"
            /\ \A i \in 1..Len(sendCh) :
                  (sendCh[i].type = "rejected" /\ sendCh[i].slot = NoSlot)
                      => sendCh[i].info = "SIGNATURE_INVALID")
    /\ [][(verifier.enabled /\ connected) =>
            \A frame \in RouterFrames :
                (FailsVerification(frame) /\ handleCommand(frame)) => C2_FailedStep(frame)]_vars

C2_Witness ==
    /\ verifier.enabled
    /\ lastRouted.sends = <<RejectedFrame(NoSlot, <<"b">>, "SIGNATURE_INVALID")>>
    /\ sendCh # <<>>
    /\ sendCh[Len(sendCh)] = RejectedFrame(NoSlot, <<"b">>, "SIGNATURE_INVALID")
    /\ \E s \in Slots : lastRouted.via[s] = "verified" /\ task[s].pc = "done"

\* C8: for every command handed to the executor exactly one terminal frame with
\* its id is enqueued on the outbound queue, whatever the fill level of the
\* queue, the other producers and the connection phase, and no such frame is
\* dropped or lost before the wire.
C8_TerminalFrameNeverDropped ==
    \A s \in Slots :
        (hist[s].completes + hist[s].rejects >= 1)
            => /\ net[s].sent = 1
               /\ net[s].dropped = 0
               /\ net[s].lost = 0

\* ------------------------------------------------------------------------
\* Claims about the running map (checked under ExecSpec)
\* ------------------------------------------------------------------------
\* What Executor.Cancel(id) returns when called in the current state
CancelReturns(id) == running[id] # NoSlot

\* The goroutine of the command in slot s has been started and has not ended
Unfinished(s) == task[s].pc \in {"exec", "stream", "deferred"}

\* C11 as stated: Cancel(id) returns true exactly when some accepted command
\* with that id has a task that has not yet finished, also when two accepted
\* commands carry the same id.
C11_CancelTrueIffUnfinished ==
    \A id \in ExecIds :
        CancelReturns(id) <=> \E s \in Slots : task[s].id = id /\ Unfinished(s)

\* ------------------------------------------------------------------------
\* Specification of the shutdown: main waits for a signal while the executor
\* runs commands, cancels its context, stops its components and returns
\* ------------------------------------------------------------------------

\* main: a signal arrives on sigCh and cancel() is called. The contexts of the
\* executor's commands are made from context.Background() in Execute; none is
\* derived from main's context, and no component main stops holds them.
Shutdown ==
    /\ agent.pc = "waiting"
    /\ agent' = [agent EXCEPT !.ctx = "canceled", !.pc = "stopping"]
    /\ UNCHANGED <<task, running, hist>>

\* main: the components are stopped and main returns; the process and its
\* goroutines are gone. A subprocess is not a part of it and stays.
MainReturns ==
    /\ agent.pc = "stopping"
    /\ agent' = [agent EXCEPT !.pc = "exited"]
    /\ UNCHANGED <<task, running, hist>>

\* The goroutines of the process take steps while the process exists
ProcessLives == agent.pc # "exited"

ShutdownInputs == { Cmd(<<"a">>, <<"x">>, <<>>, NoEnv, 1),
                    Cmd(<<"b">>, <<"x">>, <<>>, NoEnv, 0) }

ShutdownFrame == UNCHANGED <<validatorVars, sinkVars, routerVars, canon, mgr, dedup, logVars>>
UnitFrame == ShutdownFrame /\ ProcessLives /\ UNCHANGED agent

DoShutdown == ShutdownFrame /\ Shutdown
DoMainReturns == ShutdownFrame /\ MainReturns
DoUnitExecute == UnitFrame /\ \E cmd \in ShutdownInputs : Execute(cmd)
DoUnitSpawnFail == UnitFrame /\ \E s \in Slots : SpawnFail(s)
DoUnitSpawnOk == UnitFrame /\ \E s \in Slots : SpawnOk(s)
DoUnitTimerFire == UnitFrame /\ \E s \in Slots : TimerFire(s)
DoUnitCtxKill == UnitFrame /\ \E s \in Slots : CtxKill(s)
DoUnitReadEOF == UnitFrame /\ \E s \in Slots, st \in Streams : ReadEOF(s, st)
DoUnitComplete == UnitFrame /\ \E s \in Slots : WaitAndComplete(s)
DoUnitCleanup == UnitFrame /\ \E s \in Slots : Cleanup(s)
\* The subprocess ends on its own, whether the agent still exists or not
DoUnitExit ==
    ShutdownFrame /\ UNCHANGED agent /\ \E s \in Slots, code \in OwnExitCodes : ProcExit(s, code)

ShutdownInit ==
    /\ NewValidatorState
    /\ ExecutorIdle /\ SinkIdle("recording") /\ RouterIdle /\ CanonIdle /\ AgentIdle /\ LogIdle

ShutdownNext ==
    \/ DoShutdown
    \/ DoMainReturns
    \/ DoUnitExecute
    \/ DoUnitSpawnFail
    \/ DoUnitSpawnOk
    \/ DoUnitTimerFire
    \/ DoUnitCtxKill
    \/ DoUnitReadEOF
    \/ DoUnitComplete
    \/ DoUnitCleanup
    \/ DoUnitExit

ShutdownSpec == ShutdownInit /\ [][ShutdownNext]_vars

\* C12 as stated: once the process-wide cancellation has fired, the context of
\* every command is cancelled with it, and when main has returned no subprocess
\* is still running.
C12_ShutdownCancelsCommands ==
    /\ agent.ctx = "canceled" => \A s \in Slots : task[s].ctx # "active"
    /\ agent.pc = "exited" => \A s \in Slots : task[s].proc # "running"

\* ------------------------------------------------------------------------
\* connection: the Manager, its supervisor (connectionLoop, connect,
\* runConnection) and its readLoop goroutines
\* ------------------------------------------------------------------------

\* Mutation of Stopping: only doneCh is looked at
StoppingOnlyDone == mgr.doneCh = "closed"

\* ctx.Done() or doneCh is ready
Stopping == agent.ctx = "canceled" \/ mgr.doneCh = "closed"

\* The number of connections the supervisor has left so far
Gen == Cardinality({c \in Conns : mgr.conns[c].torn})

\* The connections not dialed yet
FreshConns == {c \in Conns : mgr.conns[c].hs = "none"}

\* Manager.Start: connectionLoop is started, delay := InitialDelay
Start ==
    /\ mgr.pc = "idle"
    /\ mgr' = [mgr EXCEPT !.pc = "top", !.delay = InitialDelay]
    /\ UNCHANGED sendCh

\* Manager.Stop, first half: close(doneCh); Stop then waits for connectionLoop
StopCall ==
    /\ mgr.doneCh = "open"
    /\ mgr' = [mgr EXCEPT !.doneCh = "closed"]
    /\ UNCHANGED sendCh

\* Manager.Stop, second half: connectionLoop has returned (or was never
\* started), the connection held in m.conn is closed
StopReturns ==
    /\ mgr.doneCh = "closed"
    /\ mgr.pc \in {"idle", "exited"}
    /\ mgr.conn # NoConn
    /\ ~mgr.conns[mgr.conn].closed
    /\ mgr' = [mgr EXCEPT !.conns[mgr.conn].closed = TRUE]
    /\ UNCHANGED sendCh

\* connectionLoop, head of the loop: ctx or doneCh is done, return
LoopExit ==
    /\ mgr.pc = "top"
    /\ Stopping
    /\ mgr' = [mgr EXCEPT !.pc = "exited"]
    /\ UNCHANGED sendCh

\* connectionLoop, head of the loop: neither is done, setState(connecting) and
\* connect is entered
LoopAttempt ==
    /\ mgr.pc = "top"
    /\ ~Stopping
    /\ mgr.fails < MaxFails
    /\ mgr' = [mgr EXCEPT !.pc = "dial", !.state = "connecting"]
    /\ UNCHANGED sendCh

\* connectionLoop after connect returned an error: setState(disconnected), the
\* backoff select is entered
ConnectFailed(m) ==
    [m EXCEPT !.state = "disconnected", !.pc = "backoff", !.fails = @ + 1,
              !.rested = FALSE]

\* connect: DialContext fails
DialFails ==
    /\ mgr.pc = "dial"
    /\ mgr' = ConnectFailed(mgr)
    /\ UNCHANGED sendCh

\* connect: DialContext succeeds (it fails when ctx is done), m.conn = conn
DialOk(c) ==
    /\ mgr.pc = "dial"
    /\ agent.ctx = "active"
    /\ c \in FreshConns
    /\ \A d \in FreshConns : c <= d
    /\ mgr' = [mgr EXCEPT !.pc = "auth", !.conn = c, !.conns[c].hs = "pending"]
    /\ UNCHANGED sendCh

\* connect: the auth message cannot be sent, or no auth_ok is read within the
\* deadline (read error, unparseable frame, auth_error, another type):
\* conn.Close() and an error. m.conn keeps the closed connection.
AuthFails ==
    /\ mgr.pc = "auth"
    /\ mgr' = ConnectFailed(
                [mgr EXCEPT !.conns[mgr.conn] =
                                [hs |-> "failed", closed |-> TRUE, torn |-> TRUE]])
    /\ UNCHANGED sendCh

\* connect: auth_ok is read, setState(connected), nil returned; connectionLoop
\* resets delay and enters runConnection, which starts readLoop
AuthOk ==
    /\ mgr.pc = "auth"
    /\ ~mgr.conns[mgr.conn].closed
    /\ mgr' = [mgr EXCEPT !.conns[mgr.conn].hs = "ok", !.state = "connected",
                          !.delay = InitialDelay, !.fails = 0, !.pc = "run",
                          !.readers[mgr.conn] = mgr.conn]
    /\ UNCHANGED sendCh

\* connectionLoop, the backoff select: ctx or doneCh is done, return
BackoffExit ==
    /\ mgr.pc = "backoff"
    /\ Stopping
    /\ mgr' = [mgr EXCEPT !.pc = "exited"]
    /\ UNCHANGED sendCh

\* Mutation of NextDelay: the delay is doubled without a cap
NextDelayUncapped(d) == d * Multiplier

\* The delay that follows a sleep of d seconds
NextDelay(d) == IF d * Multiplier > MaxDelay THEN MaxDelay ELSE d * Multiplier

\* connectionLoop, the backoff select: time.After(delay) fires; the delay is
\* doubled up to MaxDelay and the loop goes on
BackoffSleeps ==
    /\ mgr.pc = "backoff"
    /\ mgr' = [mgr EXCEPT !.pc = "top", !.rested = TRUE,
                          !.slept = [k |-> mgr.fails, d |-> mgr.delay],
                          !.delay = NextDelay(mgr.delay)]
    /\ UNCHANGED sendCh

\* Mutation of RunReturns: setState(disconnected) is left out
RunReturnsKeepsState(m) ==
    [m EXCEPT !.pc = "top", !.rested = FALSE, !.conns[m.conn].torn = TRUE]

\* runConnection returns and connectionLoop calls setState(disconnected): the
\* connection is left as it is (it is not closed), and so is its readLoop
RunReturns(m) ==
    [m EXCEPT !.state = "disconnected", !.pc = "top", !.rested = FALSE,
              !.conns[m.conn].torn = TRUE]

\* runConnection: ctx or doneCh is done
RunStops ==
    /\ mgr.pc = "run"
    /\ Stopping
    /\ mgr' = RunReturns(mgr)
    /\ UNCHANGED sendCh

\* runConnection: readDone is closed, the readLoop it started has returned
RunReadDone ==
    /\ mgr.pc = "run"
    /\ mgr.readers[mgr.conn] = NoConn
    /\ mgr' = RunReturns(mgr)
    /\ UNCHANGED sendCh

\* runConnection: the heartbeat ticker fires and the heartbeat cannot be written
\* (a heartbeat that is written changes nothing here)
HeartbeatFails ==
    /\ mgr.pc = "run"
    /\ mgr' = RunReturns(mgr)
    /\ UNCHANGED sendCh

\* runConnection: a frame is taken from sendCh and written to the connection
RunWrite ==
    /\ mgr.pc = "run"
    /\ sendCh # <<>>
    /\ sendCh' = Tail(sendCh)
    /\ mgr' = [mgr EXCEPT !.wrote = [born |-> Head(sendCh).info, gen |-> Gen]]

\* runConnection: a frame is taken from sendCh and the write fails
RunWriteFails ==
    /\ mgr.pc = "run"
    /\ sendCh # <<>>
    /\ sendCh' = Tail(sendCh)
    /\ mgr' = RunReturns(mgr)

\* readLoop, one iteration of the goroutine started for connection r:
\* ReadMessage on the connection it holds returns a frame, the handler is
\* called with it, and the next iteration takes the connection m.conn holds now
ReaderDispatch(r) ==
    /\ mgr.readers[r] # NoConn
    /\ LET c == mgr.readers[r]
       IN  /\ ~mgr.conns[c].closed
           /\ mgr' = [mgr EXCEPT !.readers[r] = mgr.conn,
                                 !.handled = [from |-> c, hs |-> mgr.conns[c].hs,
                                              torn |-> mgr.conns[c].torn,
                                              state |-> mgr.state]]
    /\ UNCHANGED sendCh

\* readLoop: ReadMessage returns an error (the connection was closed by the
\* agent or by the peer, or the network failed), the goroutine returns
ReaderError(r) ==
    /\ mgr.readers[r] # NoConn
    /\ mgr' = [mgr EXCEPT !.readers[r] = NoConn]
    /\ UNCHANGED sendCh

\* A frame a producer (health monitor, log monitor, router) hands to
\* Manager.Send; info notes how many connections had been left by then
ProducerFrame == [type |-> "other", slot |-> NoSlot, id |-> <<>>, info |-> Gen]

\* Manager.Send(msg) by a producer
ManagerSend ==
    /\ sendCh' = Send(sendCh, ProducerFrame)
    /\ UNCHANGED mgr

\* ------------------------------------------------------------------------
\* Specification of the connection manager: Start, the supervisor and the
\* readers, producers calling Send, and Stop or the cancellation of main's
\* context at any moment
\* ------------------------------------------------------------------------
ConnFrame ==
    UNCHANGED <<validatorVars, executorVars, handlers, net, routerVars, canon, dedup, logVars>>
MgrFrame == ConnFrame /\ UNCHANGED agent

DoStart == MgrFrame /\ Start
DoStopCall == MgrFrame /\ StopCall
DoStopReturns == MgrFrame /\ StopReturns
DoCtxCancel == ConnFrame /\ Shutdown /\ UNCHANGED <<mgr, sendCh>>
DoLoopExit == MgrFrame /\ LoopExit
DoLoopAttempt == MgrFrame /\ LoopAttempt
DoDialFails == MgrFrame /\ DialFails
DoDialOk == MgrFrame /\ \E c \in Conns : DialOk(c)
DoAuthFails == MgrFrame /\ AuthFails
DoAuthOk == MgrFrame /\ AuthOk
DoBackoffExit == MgrFrame /\ BackoffExit
DoBackoffSleeps == MgrFrame /\ BackoffSleeps
DoRunStops == MgrFrame /\ RunStops
DoRunReadDone == MgrFrame /\ RunReadDone
DoHeartbeatFails == MgrFrame /\ HeartbeatFails
DoRunWrite == MgrFrame /\ RunWrite
DoRunWriteFails == MgrFrame /\ RunWriteFails
DoReaderDispatch == MgrFrame /\ \E r \in Conns : ReaderDispatch(r)
DoReaderError == MgrFrame /\ \E r \in Conns : ReaderError(r)
DoManagerSend == MgrFrame /\ ManagerSend

ConnInit ==
    /\ NewValidatorState
    /\ ExecutorIdle /\ SinkIdle("router") /\ RouterIdle /\ CanonIdle /\ AgentIdle /\ LogIdle

ConnNext ==
    \/ DoStart
    \/ DoStopCall
    \/ DoStopReturns
    \/ DoCtxCancel
    \/ DoLoopExit
    \/ DoLoopAttempt
    \/ DoDialFails
    \/ DoDialOk
    \/ DoAuthFails
    \/ DoAuthOk
    \/ DoBackoffExit
    \/ DoBackoffSleeps
    \/ DoRunStops
    \/ DoRunReadDone
    \/ DoHeartbeatFails
    \/ DoRunWrite
    \/ DoRunWriteFails
    \/ DoReaderDispatch
    \/ DoReaderError
    \/ DoManagerSend

ConnSpec == ConnInit /\ [][ConnNext]_vars

\* ------------------------------------------------------------------------
\* Claims about the connection manager (checked under ConnSpec)
\* ------------------------------------------------------------------------

\* C13 as stated: the handler is only called with a frame read from a
\* connection on which auth_ok was read, never from one that is still
\* connecting or that the supervisor has already left.
C13_DispatchOnlyFromLiveConnection ==
    mgr.handled.from # NoConn =>
        /\ mgr.handled.hs = "ok"
        /\ ~mgr.handled.torn
        /\ mgr.handled.state = "connected"

PhaseSteps ==
    { <<"disconnected", "connecting">>, <<"connecting", "connected">>,
      <<"connecting", "disconnected">>, <<"connected", "disconnected">> }

\* C14: the phase changes only along disconnected -> connecting -> connected ->
\* disconnected, or from connecting back to disconnected when the attempt
\* fails; it is connecting exactly while connect runs, connected exactly while
\* runConnection runs, and disconnected everywhere else.
C14_PhaseAdvancesForwards ==
    /\ [][mgr'.state # mgr.state => <<mgr.state, mgr'.state>> \in PhaseSteps]_vars
    /\ [](/\ mgr.state = "connecting" <=> mgr.pc \in {"dial", "auth"}
          /\ mgr.state = "connected" <=> mgr.pc = "run"
          /\ mgr.state = "disconnected" <=> mgr.pc \in {"idle", "top", "backoff", "exited"})

C14_Witness ==
    /\ mgr.state = "connecting"
    /\ mgr.conns[1].hs = "ok" /\ mgr.conns[1].torn
    /\ mgr.conns[2].hs = "pending"
    /\ mgr.slept.k = 1

RECURSIVE Pow2(_)
Pow2(n) == IF n = 0 THEN 1 ELSE 2 * Pow2(n - 1)

\* min(2^(k-1), 30)
BackoffOf(k) == IF Pow2(k - 1) < MaxDelay THEN Pow2(k - 1) ELSE MaxDelay

\* C15: the sleep after the k-th consecutive failed attempt lasts
\* min(2^(k-1), 30) seconds, the delay is never below 1 s nor above 30 s, and
\* it is 1 s after every successful auth.
C15_BackoffDoublesToCap ==
    /\ mgr.slept.k >= 1 => mgr.slept.d = BackoffOf(mgr.slept.k)
    /\ mgr.pc = "backoff" => mgr.delay = BackoffOf(mgr.fails)
    /\ mgr.delay >= InitialDelay /\ mgr.delay <= MaxDelay
    /\ mgr.pc = "run" => mgr.delay = InitialDelay /\ mgr.fails = 0

C15_Witness ==
    /\ mgr.slept = [k |-> 6, d |-> MaxDelay]
    /\ mgr.conns[1].hs = "ok"

\* C16 as stated: after every teardown (failed dial, failed or refused
\* handshake, loss of an established connection) the supervisor sleeps the
\* current delay before it dials again.
C16_SleepsBeforeRedial == mgr.pc = "dial" => mgr.rested

\* C18 as stated: a frame that was enqueued and not yet written when the
\* connection was left is never written to a later connection.
C18_UnsentFramesDiscarded == mgr.wrote.born >= mgr.wrote.gen

\* C17: Send never blocks, in any connection phase: a call is always possible
\* and returns at once; it appends the frame when the queue holds fewer frames
\* than its capacity, and otherwise reports the full buffer and leaves the
\* queue as it is; the queue never holds more frames than its capacity. (The
\* capacity, 100 in NewManager, is SendQueueCap here.)
C17_SendNeverBlocks ==
    /\ [](Len(sendCh) <= SendQueueCap)
    /\ [](ENABLED DoManagerSend)
    /\ [][ManagerSend =>
            IF Len(sendCh) < SendQueueCap
            THEN sendCh' = Append(sendCh, ProducerFrame) /\ ~SendFails(sendCh)
            ELSE sendCh' = sendCh /\ SendFails(sendCh)]_vars

C17_Witness ==
    /\ Len(sendCh) = SendQueueCap
    /\ SendFails(sendCh)
    /\ mgr.state = "connected"
    /\ sendCh[1].info = 0 /\ sendCh[SendQueueCap].info = 1

\* The supervisor under fair scheduling: a select case that stays ready is
\* taken in the end, and a dial and a handshake end within their deadlines
ConnFairSpec ==
    /\ ConnSpec
    /\ WF_vars(DoLoopExit)
    /\ WF_vars(DoBackoffExit)
    /\ WF_vars(DoRunStops)
    /\ WF_vars(DoDialFails \/ DoDialOk)
    /\ WF_vars(DoAuthFails \/ DoAuthOk)

RECURSIVE SumOccurrences(_, _)
SumOccurrences(entries, hs) ==
    IF hs = {} THEN 0
    ELSE LET h == CHOOSE x \in hs : TRUE
         IN  entries[h].OccurrenceCount + SumOccurrences(entries, hs \ {h})

Stats(d) ==
    LET live == {h \in Signatures : d.entries[h].found}
    IN  [uniqueErrors |-> Cardinality(live),
         totalOccurrences |-> SumOccurrences(d.entries, live)]

\* Mutation of SightingEntry: a sighting inside the window that finds an entry
\* is not counted as an occurrence
SightingEntryUncounted(e, now, window) ==
    IF ~e.found
    THEN [found |-> TRUE, WindowStart |-> now, WindowCount |-> 1,
          OccurrenceCount |-> 1, LastSeen |-> now, emitted |-> 1, times |-> <<>>]
    ELSE IF now - e.WindowStart > window
    THEN [e EXCEPT !.LastSeen = now, !.OccurrenceCount = @ + 1,
                   !.WindowStart = now, !.WindowCount = 1, !.emitted = 1]
    ELSE [e EXCEPT !.LastSeen = now, !.WindowCount = @ + 1]

\* Deduplicator.ShouldEmit for an error line whose signature is h: the entry
\* after the call
SightingEntry(e, now, window) ==
    IF ~e.found
    THEN [found |-> TRUE, WindowStart |-> now, WindowCount |-> 1,
          OccurrenceCount |-> 1, LastSeen |-> now, emitted |-> 1, times |-> <<>>]
    ELSE IF now - e.WindowStart > window
    THEN [e EXCEPT !.LastSeen = now, !.OccurrenceCount = @ + 1,
                   !.WindowStart = now, !.WindowCount = 1, !.emitted = 1]
    ELSE [e EXCEPT !.LastSeen = now, !.OccurrenceCount = @ + 1,
                   !.WindowCount = @ + 1]

\* Deduplicator.ShouldEmit: the value returned as emit
SightingEmits(e, now, window, max) ==
    \/ ~e.found
    \/ now - e.WindowStart > window
    \/ e.WindowCount + 1 <= max

ShouldEmit(h) ==
    LET e == dedup.entries[h]
        emit == SightingEmits(e, dedup.now, dedup.rateWindow, dedup.maxPerWindow)
        after == SightingEntry(e, dedup.now, dedup.rateWindow)
        expired == e.found /\ dedup.now - e.WindowStart > dedup.rateWindow
    IN  /\ Stats(dedup).totalOccurrences < MaxSightings
        /\ dedup' = [dedup EXCEPT
              !.entries[h] =
                  [after EXCEPT
                      !.emitted = IF e.found /\ ~expired /\ emit THEN @ + 1 ELSE @,
                      !.times = IF emit THEN Append(e.times, dedup.now) ELSE e.times],
              !.last = [hash |-> h, emit |-> emit, found |-> e.found,
                        expired |-> expired, emitted |-> e.emitted,
                        max |-> dedup.maxPerWindow]]

\* Deduplicator.SetRateWindow, Deduplicator.SetMaxPerWindow
Unused == \A h \in Signatures : ~dedup.entries[h].found
SetRateWindow(window) ==
    dedup' = [dedup EXCEPT !.rateWindow = window, !.steady = @ /\ Unused]
SetMaxPerWindow(max) ==
    dedup' = [dedup EXCEPT !.maxPerWindow = max, !.steady = @ /\ Unused]

\* Deduplicator.cleanup: the entries last seen before now - 2 * rateWindow go
cleanup ==
    dedup' = [dedup EXCEPT !.entries =
                [h \in Signatures |->
                    IF dedup.entries[h].found
                       /\ dedup.entries[h].LastSeen < dedup.now - dedup.rateWindow * 2
                    THEN NoEntry ELSE dedup.entries[h]]]

\* time.Now advances by a second
DedupTick ==
    /\ dedup.now < MaxNow
    /\ dedup' = [dedup EXCEPT !.now = @ + 1]

\* ------------------------------------------------------------------------
\* Specification of the deduplicator: sightings, changes of the window and of
\* the maximum at runtime, cleanups, as time passes
\* ------------------------------------------------------------------------
RateWindows == {1, DefaultRateWindow}
MaxPerWindows == {1, 2, DefaultMaxPerWindow}

DedupFrame ==
    UNCHANGED <<validatorVars, executorVars, sinkVars, routerVars, canon, agent, mgr, logVars>>

DoShouldEmit == DedupFrame /\ \E h \in Signatures : ShouldEmit(h)
DoSetRateWindow == DedupFrame /\ \E window \in RateWindows : SetRateWindow(window)
DoSetMaxPerWindow == DedupFrame /\ \E max \in MaxPerWindows : SetMaxPerWindow(max)
DoDedupCleanup == DedupFrame /\ cleanup
DoDedupTick == DedupFrame /\ DedupTick

DedupInit ==
    /\ NewValidatorState
    /\ ExecutorIdle /\ SinkIdle("recording") /\ RouterIdle /\ CanonIdle /\ AgentIdle /\ LogIdle

DedupNext ==
    \/ DoShouldEmit
    \/ DoSetRateWindow
    \/ DoSetMaxPerWindow
    \/ DoDedupCleanup
    \/ DoDedupTick

DedupSpec == DedupInit /\ [][DedupNext]_vars

\* C20 as stated: ShouldEmit emits exactly when the signature has no entry, or
\* now - window_start > window, or fewer than max_per_window sightings have
\* been emitted in the current window, also after the window or the maximum
\* was changed at runtime.
C20_EmitsExactlyWhenAllowed ==
    dedup.last.hash # "" =>
        (dedup.last.emit <=>
            \/ ~dedup.last.found
            \/ dedup.last.expired
            \/ dedup.last.emitted < dedup.last.max)

\* The sightings of h emitted in the interval of length window that starts
\* with the i-th emitted one
EmittedWithin(h, i, window) ==
    LET times == dedup.entries[h].times
    IN  {j \in 1..Len(times) : times[j] >= times[i] /\ times[j] - times[i] <= window}

\* C21 as stated: with the window and the maximum left as they are, no interval
\* that is no longer than the rate window holds more than max_per_window
\* emitted sightings of one signature.
C21_AtMostMaxPerInterval ==
    dedup.steady =>
        \A h \in Signatures :
            \A i \in 1..Len(dedup.entries[h].times) :
                Cardinality(EmittedWithin(h, i, dedup.rateWindow)) <= dedup.maxPerWindow

\* C22: every ShouldEmit call for a signature that has an entry adds one to the
\* entry's occurrence count, whether the sighting is emitted or suppressed, and
\* the call that creates the entry sets it to 1; Stats reports the number of
\* entries and the sum of their occurrence counts.
C22_OccurrencesCountEverySighting ==
    /\ [][\A h \in Signatures :
            ShouldEmit(h) =>
                dedup'.entries[h].OccurrenceCount =
                    IF dedup.entries[h].found
                    THEN dedup.entries[h].OccurrenceCount + 1 ELSE 1]_vars
    /\ [](LET live == {h \in Signatures : dedup.entries[h].found}
          IN  /\ Stats(dedup).uniqueErrors = Cardinality(live)
              /\ Stats(dedup).totalOccurrences =
                    dedup.entries["s1"].OccurrenceCount
                        + dedup.entries["s2"].OccurrenceCount
              /\ \A h \in Signatures : dedup.entries[h].OccurrenceCount >= 0
              /\ \A h \in live :
                    dedup.entries[h].OccurrenceCount >= dedup.entries[h].WindowCount)

C22_Witness ==
    /\ dedup.last = [hash |-> "s1", emit |-> FALSE, found |-> TRUE,
                     expired |-> FALSE, emitted |-> 1, max |-> 1]
    /\ dedup.entries["s1"].OccurrenceCount = 3
    /\ dedup.entries["s2"].OccurrenceCount = 1
    /\ Stats(dedup) = [uniqueErrors |-> 2, totalOccurrences |-> 4]


\* ------------------------------------------------------------------------
\* logmonitor.Matcher
\* ------------------------------------------------------------------------
LogLines == { <<"X">>, <<"a">>, <<"p">> }
LogSource == "app.log"

\* Matcher.matchesPattern(line) for the patterns ps
matchesPattern(ps, line) == \E pattern \in ps : Contains(ToLower(line), ToLower(pattern))

\* The lines of the ring buffer in the order of its slots, oldest slot first
getContextBeforeUnrotated(m) == [i \in 1..m.bufferCount |-> m.buffer[i - 1]]

\* Matcher.getContextBefore: the lines of the ring buffer in the order they
\* arrived
getContextBefore(m) ==
    IF m.bufferCount = 0 THEN <<>>
    ELSE IF m.bufferCount < m.contextLines
         THEN [i \in 1..m.bufferCount |-> m.buffer[i - 1]]
         ELSE [i \in 1..m.contextLines |-> m.buffer[(m.bufferPos + i - 1) % m.contextLines]]

\* Matcher.emitMatch: the capture is handed to the handler
emitMatch(m) ==
    [m EXCEPT !.handled = Append(@, m.captureMatch), !.capturing = FALSE]

\* ProcessLine, first part: a capture in flight takes the line as context and
\* is emitted once it has context_lines lines of it
CaptureAfter(m, line) ==
    IF ~m.capturing THEN m
    ELSE LET taken == [m EXCEPT !.captureMatch.ContextAfter = Append(@, line),
                                !.captureAfterCount = @ + 1]
         IN  IF taken.captureAfterCount >= taken.contextLines THEN emitMatch(taken)
             ELSE taken

\* A matching line starts a capture without emitting the capture in flight
StartCaptureDropping(m, line) ==
    IF ~matchesPattern(m.patterns, line) THEN m
    ELSE [m EXCEPT !.capturing = TRUE,
                   !.captureMatch = [Source |-> LogSource, ErrorLine |-> line,
                                     ContextBefore |-> getContextBefore(m),
                                     ContextAfter |-> <<>>, at |-> Len(m.lines) + 1],
                   !.captureAfterCount = 0]

\* ProcessLine, second part: a matching line emits the capture in flight and
\* starts a capture of its own
StartCapture(m, line) ==
    IF ~matchesPattern(m.patterns, line) THEN m
    ELSE LET free == IF m.capturing THEN emitMatch(m) ELSE m
         IN  [free EXCEPT !.capturing = TRUE,
                          !.captureMatch = [Source |-> LogSource, ErrorLine |-> line,
                                            ContextBefore |-> getContextBefore(free),
                                            ContextAfter |-> <<>>,
                                            at |-> Len(m.lines) + 1],
                          !.captureAfterCount = 0]

\* ProcessLine, last part: the line enters the ring buffer
AddToBuffer(m, line) ==
    [m EXCEPT !.buffer[m.bufferPos] = line,
              !.bufferPos = (m.bufferPos + 1) % m.contextLines,
              !.bufferCount = IF @ < m.contextLines THEN @ + 1 ELSE @]

\* The matcher m after ProcessLine(source, line)
Processed(m, line) ==
    LET done == AddToBuffer(StartCapture(CaptureAfter(m, line), line), line)
    IN  [done EXCEPT !.lines = Append(@, [line |-> line,
                                          patterns |-> m.patterns,
                                          contextLines |-> m.contextLines,
                                          since |-> m.since]),
                     !.since = @ + 1,
                     !.op = "ProcessLine"]

\* Matcher.ProcessLine(source, line)
ProcessLine(line) ==
    /\ Len(matcher.lines) < MaxProcessed
    /\ matcher' = Processed(matcher, line)

\* Matcher.Flush
Flush ==
    matcher' = [(IF matcher.capturing THEN emitMatch(matcher) ELSE matcher)
                  EXCEPT !.op = "Flush"]

\* Matcher.UpdatePatterns(patterns)
UpdatePatterns(patterns) ==
    /\ matcher.updates < MaxUpdates
    /\ matcher' = [matcher EXCEPT !.patterns = patterns, !.updates = @ + 1,
                                  !.op = "UpdatePatterns"]

\* Matcher.UpdateContextLines(count)
UpdateContextLines(count) ==
    LET n == IF count <= 0 THEN DefaultContextLines ELSE count
    IN  /\ matcher.updates < MaxUpdates
        /\ matcher' =
              IF n # matcher.contextLines
              THEN [matcher EXCEPT !.contextLines = n,
                                   !.buffer = [i \in 0..(n - 1) |-> <<>>],
                                   !.bufferPos = 0, !.bufferCount = 0,
                                   !.since = 0, !.updates = @ + 1,
                                   !.op = "UpdateContextLines"]
              ELSE [matcher EXCEPT !.updates = @ + 1, !.op = "UpdateContextLines"]

\* ------------------------------------------------------------------------
\* Specification of a matcher: lines, flushes and updates of its patterns and
\* its context_lines in any order
\* ------------------------------------------------------------------------
ContextSizes == {0, 1, 2}
PatternSets == {ErrorPatterns, {}}

MatcherFrame ==
    UNCHANGED <<validatorVars, executorVars, sinkVars, routerVars, canon, agentVars,
                tailer, monitor>>

DoProcessLine == MatcherFrame /\ \E line \in LogLines : ProcessLine(line)
DoFlush == MatcherFrame /\ Flush
DoUpdatePatterns == MatcherFrame /\ \E ps \in PatternSets : UpdatePatterns(ps)
DoUpdateContextLines == MatcherFrame /\ \E count \in ContextSizes : UpdateContextLines(count)

MatcherInit ==
    /\ NewValidatorState
    /\ ExecutorIdle /\ SinkIdle("recording") /\ RouterIdle /\ CanonIdle /\ AgentIdle
    /\ \E count \in ContextSizes : matcher = NewMatcher(ErrorPatterns, count)
    /\ tailer = NewTailer
    /\ monitor = NewMonitor

MatcherNext ==
    \/ DoProcessLine
    \/ DoFlush
    \/ DoUpdatePatterns
    \/ DoUpdateContextLines

MatcherSpec == MatcherInit /\ [][MatcherNext]_vars

\* The numbers of the lines that matched the patterns of their moment, in the
\* order they arrived
MatchingLines(m) ==
    SelectSeq([i \in 1..Len(m.lines) |-> i],
              LAMBDA i : matchesPattern(m.lines[i].patterns, m.lines[i].line))

HandledLines(m) == [i \in 1..Len(m.handled) |-> m.handled[i].at]

\* C23: after any ProcessLine calls followed by Flush the handler has been
\* called exactly once for each line that matched a pattern and for no other
\* line, in the order the lines arrived, each time with that line as the error
\* line; and a Flush with no capture in flight calls the handler not at all.
C23_OneMatchPerMatchingLine ==
    [][/\ matcher'.op = "Flush" =>
            /\ HandledLines(matcher') = MatchingLines(matcher')
            /\ \A i \in 1..Len(matcher'.handled) :
                   matcher'.handled[i].ErrorLine = matcher'.lines[matcher'.handled[i].at].line
       /\ (matcher'.op = "Flush" /\ ~matcher.capturing) =>
            matcher'.handled = matcher.handled]_vars

C23_Witness ==
    /\ matcher.op = "Flush"
    /\ Len(matcher.handled) >= 2
    /\ \E i \in 1..Len(matcher.lines) :
           ~matchesPattern(matcher.lines[i].patterns, matcher.lines[i].line)


\* The n lines given to the matcher just before its line number at
LinesBefore(m, at, n) == [i \in 1..n |-> m.lines[at - n + i - 1].line]

Min(a, b) == IF a <= b THEN a ELSE b

\* C24 as stated: every emitted Match has as ContextBefore the last min(N, k)
\* lines processed before its error line, in arrival order and without the
\* error line, N the context_lines and k the number of all lines processed
\* before the error line.
C24_ContextBeforeOfAllLines ==
    \A i \in 1..Len(matcher.handled) :
        LET h == matcher.handled[i]
            N == matcher.lines[h.at].contextLines
            k == h.at - 1
        IN  h.ContextBefore = LinesBefore(matcher, h.at, Min(N, k))

\* C24, amended: every emitted Match has as ContextBefore the last min(N, k)
\* lines processed before its error line, in arrival order and without the
\* error line, N the context_lines and k the number of lines processed before
\* the error line since the matcher was made or its context_lines last changed.
C24_ContextBeforeSinceReset ==
    \A i \in 1..Len(matcher.handled) :
        LET h == matcher.handled[i]
            N == matcher.lines[h.at].contextLines
            k == matcher.lines[h.at].since
        IN  h.ContextBefore = LinesBefore(matcher, h.at, Min(N, k))

C24_Witness ==
    \E i \in 1..Len(matcher.handled) :
        LET h == matcher.handled[i]
        IN  /\ matcher.lines[h.at].contextLines = 2
            /\ matcher.lines[h.at].since > 2
            /\ h.ContextBefore[1] # h.ContextBefore[2]


\* ------------------------------------------------------------------------
\* logmonitor.Tailer. A file is a sequence of characters; writers append
\* whole lines, each ended by a line feed, or the first bytes of a line. The
\* modification time of a file is the time of the file system's clock at its
\* last write or truncation.
\* ------------------------------------------------------------------------
TailedLines == { <<"A">>, <<"B">> }

Size(t, f) == Len(t.files[f].content)

\* The complete lines of s, without their line feeds
RECURSIVE CompleteLines(_)
CompleteLines(s) ==
    IF \A i \in 1..Len(s) : s[i] # LF THEN <<>>
    ELSE LET i == CHOOSE k \in 1..Len(s) : s[k] = LF /\ \A j \in 1..(k - 1) : s[j] # LF
         IN  <<SubSeq(s, 1, i - 1)>> \o CompleteLines(SubSeq(s, i + 1, Len(s)))

RECURSIVE SumLen(_)
SumLen(ls) == IF ls = <<>> THEN 0 ELSE Len(Head(ls)) + 1 + SumLen(Tail(ls))

\* getInode(info): the modification time stands for the inode
getInode(info) == info.mtime

\* Tailer.openFileUnlocked, its failure leaving the tailer as it was: the file
\* of the path is opened and the read offset set to its end
openFileUnlocked(t) ==
    IF t.at = NoFile THEN t
    ELSE [t EXCEPT !.file = t.at, !.offset = Size(t, t.at), !.position = Size(t, t.at),
                   !.inode = getInode(t.files[t.at])]

\* The loop of readLines: every complete line from the read offset to the end
\* of the open file is handed to the handler, empty lines skipped
ReadLoop(t) ==
    LET content == t.files[t.file].content
        data == SubSeq(content, t.offset + 1, Len(content))
        read == CompleteLines(data)
    IN  [t EXCEPT !.offset = IF @ < Len(content) THEN Len(content) ELSE @,
                  !.position = @ + SumLen(read),
                  !.emitted = @ \o [i \in 1..Len(SelectSeq(read, LAMBDA l : l # <<>>)) |->
                                      [file |-> t.file,
                                       line |-> SelectSeq(read, LAMBDA l : l # <<>>)[i]]]]

\* Tailer.readLines
readLines ==
    LET t == IF tailer.file = NoFile THEN openFileUnlocked(tailer) ELSE tailer
        done == IF t.file = NoFile THEN t ELSE ReadLoop(t)
    IN  /\ Len(tailer.emitted) < MaxEmitted
        /\ tailer' = [done EXCEPT !.last = [op |-> "readLines", shrunk |-> FALSE]]

\* TRUE iff the open file is the file of the path and is shorter than the held
\* offset
Shrunk(t) == t.file # NoFile /\ t.at = t.file /\ Size(t, t.at) < t.position

\* Tailer.checkRotation, the tailer after it
checkRotationOf(t) ==
    IF t.file = NoFile THEN openFileUnlocked(t)
    ELSE IF t.at = NoFile THEN [t EXCEPT !.file = NoFile]
    ELSE IF getInode(t.files[t.at]) # t.inode
         THEN openFileUnlocked([t EXCEPT !.file = NoFile])
    ELSE IF Size(t, t.at) < t.position THEN [t EXCEPT !.offset = 0, !.position = 0]
    ELSE t

checkRotation ==
    tailer' = [checkRotationOf(tailer) EXCEPT
                  !.last = [op |-> "checkRotation", shrunk |-> Shrunk(tailer)]]

\* A writer appends a line to the file of the path and creates the file if
\* the path has none (echo line >> path)
WriteLine(line) ==
    /\ tailer.writes < MaxWrites
    /\ IF tailer.at # NoFile
       THEN tailer' = [tailer EXCEPT !.files[tailer.at].content = @ \o line \o <<LF>>,
                                     !.files[tailer.at].mtime = tailer.now,
                                     !.writes = @ + 1,
                                     !.last = [op |-> "WriteLine", shrunk |-> FALSE]]
       ELSE /\ \E f \in FileIds : ~tailer.files[f].made
            /\ LET f == CHOOSE g \in FileIds :
                            ~tailer.files[g].made
                              /\ \A h \in FileIds : h < g => tailer.files[h].made
               IN  tailer' = [tailer EXCEPT
                                 !.at = f,
                                 !.files[f] = [made |-> TRUE, content |-> line \o <<LF>>,
                                               mtime |-> tailer.now,
                                               rotated |-> tailer.moved,
                                               cut |-> FALSE],
                                 !.writes = @ + 1,
                                 !.last = [op |-> "WriteLine", shrunk |-> FALSE]]

\* A writer appends the first bytes of a line to the file of the path, the
\* rest and the line feed to follow in a later write
WritePart(bytes) ==
    /\ tailer.writes < MaxWrites
    /\ tailer.at # NoFile
    /\ tailer' = [tailer EXCEPT !.files[tailer.at].content = @ \o bytes,
                                !.files[tailer.at].mtime = tailer.now,
                                !.writes = @ + 1,
                                !.last = [op |-> "WritePart", shrunk |-> FALSE]]

\* The file is moved away from the path (mv path elsewhere); who has it open
\* keeps it. The field moved tells that the tailer had it open
MoveAway ==
    /\ tailer.at # NoFile
    /\ tailer' = [tailer EXCEPT !.at = NoFile,
                                !.moved = @ \/ tailer.file = tailer.at,
                                !.last = [op |-> "MoveAway", shrunk |-> FALSE]]

\* The file of the path is truncated in place (: > path)
Truncate ==
    /\ tailer.at # NoFile
    /\ tailer.files[tailer.at].content # <<>>
    /\ tailer' = [tailer EXCEPT !.files[tailer.at].content = <<>>,
                                !.files[tailer.at].mtime = tailer.now,
                                !.files[tailer.at].cut = TRUE,
                                !.last = [op |-> "Truncate", shrunk |-> FALSE]]

\* Time passes on the clock of the file system
FileClockTick ==
    /\ tailer.now < MaxClock
    /\ tailer' = [tailer EXCEPT !.now = @ + 1,
                                !.last = [op |-> "Tick", shrunk |-> FALSE]]

\* ------------------------------------------------------------------------
\* Specification of a tailer: the two tickers of tailLoop fire in any order
\* while writers append to, move away and truncate the file of the path
\* ------------------------------------------------------------------------
TailerFrame ==
    UNCHANGED <<validatorVars, executorVars, sinkVars, routerVars, canon, agentVars,
                matcher, monitor>>

DoReadLines == TailerFrame /\ readLines
DoCheckRotation == TailerFrame /\ checkRotation
DoWriteLine == TailerFrame /\ \E line \in TailedLines : WriteLine(line)
DoWritePart == TailerFrame /\ WritePart(<<"A">>)
DoMoveAway == TailerFrame /\ MoveAway
DoTruncate == TailerFrame /\ Truncate
DoFileClockTick == TailerFrame /\ FileClockTick

\* The tailer after Start with the file of two lines, written at time 0, at
\* its path
StartedTailer ==
    [NewTailer EXCEPT !.file = 1, !.offset = 4, !.position = 4, !.inode = 0, !.at = 1,
                      !.first = [file |-> 1, size |-> 4],
                      !.files[1] = [made |-> TRUE, content |-> <<"A", LF, "B", LF>>,
                                    mtime |-> 0, rotated |-> FALSE, cut |-> FALSE]]

TailerInit ==
    /\ NewValidatorState
    /\ ExecutorIdle /\ SinkIdle("recording") /\ RouterIdle /\ CanonIdle /\ AgentIdle
    /\ matcher = NewMatcher(ErrorPatterns, 1)
    /\ tailer \in {NewTailer, StartedTailer}
    /\ monitor = NewMonitor

TailerNext ==
    \/ DoReadLines
    \/ DoCheckRotation
    \/ DoWriteLine
    \/ DoWritePart
    \/ DoMoveAway
    \/ DoTruncate
    \/ DoFileClockTick

TailerSpec == TailerInit /\ [][TailerNext]_vars

\* The lines of file f handed to the handler, in order
EmittedFrom(t, f) ==
    LET of == SelectSeq(t.emitted, LAMBDA e : e.file = f)
    IN  [i \in 1..Len(of) |-> of[i].line]

\* C25: when the tailed file was moved away and a new file created at the
\* path, the tailer, once it has reopened the path and read the new file to
\* its end, has emitted every complete line written to the new file, the
\* lines written before it noticed the rotation included.
C25_RotatedFileFullyEmitted ==
    \A f \in FileIds :
        ( /\ tailer.files[f].made /\ tailer.files[f].rotated /\ ~tailer.files[f].cut
          /\ tailer.at = f /\ tailer.file = f
          /\ tailer.offset = Size(tailer, f)
          /\ tailer.last.op = "readLines" )
        => EmittedFrom(tailer, f) = CompleteLines(tailer.files[f].content)

\* C26: when the tailed file was truncated in place so that its size is below
\* the held offset, the next rotation check seeks to offset 0.
C26_TruncationSeeksToStart ==
    (tailer.last.op = "checkRotation" /\ tailer.last.shrunk)
        => tailer.offset = 0 /\ tailer.position = 0


\* ------------------------------------------------------------------------
\* logmonitor.Monitor and the frames of the router that reach it
\* ------------------------------------------------------------------------
DotGit == <<".", "g", "i", "t">>

\* The removal of the .git suffix in extractRepoFullName
StripDotGit(path) ==
    IF Len(path) > 4 /\ SubSeq(path, Len(path) - 3, Len(path)) = DotGit
    THEN SubSeq(path, 1, Len(path) - 4)
    ELSE path

\* The positions of the slashes of s, the last one first
SlashesFromEnd(s) ==
    LET at == SelectSeq([i \in 1..Len(s) |-> i], LAMBDA i : s[i] = "/")
    IN  [i \in 1..Len(at) |-> at[Len(at) - i + 1]]

\* extractRepoFullName(gitRemote): owner/repo of an SSH or HTTPS remote, the
\* empty string if there is none
extractRepoFullName(gitRemote) ==
    LET colons == SelectSeq([i \in 1..Len(gitRemote) |-> i], LAMBDA i : gitRemote[i] = ":")
        slashes == SlashesFromEnd(gitRemote)
    IN  IF /\ Len(gitRemote) > 4
           /\ SubSeq(gitRemote, 1, 4) = <<"g", "i", "t", "@">>
           /\ colons # <<>>
        THEN StripDotGit(SubSeq(gitRemote, colons[1] + 1, Len(gitRemote)))
        ELSE IF Len(slashes) >= 2 /\ slashes[2] - 1 > 0
             THEN StripDotGit(SubSeq(gitRemote, slashes[2] + 1, Len(gitRemote)))
             ELSE <<>>

\* ConfigStore.UpdateFromMessage(msg): the store holds the configs of msg only,
\* none with an app path
RECURSIVE UpdateFromMessage(_, _)
UpdateFromMessage(configs, apps) ==
    IF apps = <<>> THEN configs
    ELSE UpdateFromMessage(
             [configs EXCEPT ![Head(apps).RepoFullName] =
                 [present |-> TRUE, AppPath |-> <<>>, LogPaths |-> Head(apps).LogPaths]],
             Tail(apps))

\* Monitor.matchConfigsToApps: the config of each discovered app's repository
\* gets the app's path
RECURSIVE matchConfigsToApps(_, _)
matchConfigsToApps(configs, apps) ==
    IF apps = <<>> THEN configs
    ELSE LET app == Head(apps)
             repoFullName == extractRepoFullName(app.GitRemote)
         IN  IF app.GitRemote = <<>> \/ repoFullName = <<>>
                  \/ repoFullName \notin Repos \/ ~configs[repoFullName].present
             THEN matchConfigsToApps(configs, Tail(apps))
             ELSE matchConfigsToApps([configs EXCEPT ![repoFullName].AppPath = app.Path],
                                     Tail(apps))

\* The tailers startAppMonitor starts for a config: one for each log path, each
\* a new Tailer
TailersOf(config, gen) ==
    { [path |-> Clean(config.AppPath \o <<"/">> \o config.LogPaths[i]), gen |-> gen] :
        i \in 1..Len(config.LogPaths) }

\* Monitor.startAppMonitor(config)
startAppMonitor(m, repo) ==
    LET config == m.configs[repo]
        tailers == TailersOf(config, m.updates)
    IN  [m EXCEPT !.running = @ \cup tailers,
                  !.appMonitors[config.AppPath] =
                      [running |-> TRUE, repo |-> repo, tailers |-> tailers]]

\* The loop of restartMonitoring over the configured configs, in the order
\* the map yields them
RECURSIVE StartConfigured(_, _)
StartConfigured(m, order) ==
    IF order = <<>> THEN m
    ELSE LET repo == Head(order)
         IN  StartConfigured(
                 IF m.configs[repo].present /\ m.configs[repo].AppPath # <<>>
                 THEN startAppMonitor(m, repo) ELSE m,
                 Tail(order))

\* The tailers of the app monitors
MonitorTailers(m) == UNION { m.appMonitors[p].tailers : p \in MonitorPaths }

\* restartMonitoring that starts the new monitors next to the old ones
restartMonitoringKeeping(m, order) == StartConfigured(m, order)

\* Monitor.restartMonitoring: the tailers of all app monitors are stopped, the
\* map is emptied and a monitor started for each configured config
restartMonitoring(m, order) ==
    StartConfigured([m EXCEPT !.running = @ \ MonitorTailers(m),
                              !.appMonitors = [p \in MonitorPaths |-> NoAppMonitor]],
                    order)

\* The paths tailed
TailedPaths(m) == { t.path : t \in m.running }

\* Router.handleMonitoringConfig(data) with Monitor.UpdateConfig(msg)
UpdateConfig(msg) ==
    /\ monitor.updates < MaxConfigUpdates
    /\ \E order \in { <<a, b>> : a, b \in Repos } :
          /\ order[1] # order[2]
          /\ LET counted == [monitor EXCEPT !.updates = @ + 1]
                 stored == [counted EXCEPT
                               !.configs = UpdateFromMessage([r \in Repos |-> NoConfig], msg)]
                 matched == [stored EXCEPT
                                !.configs = matchConfigsToApps(stored.configs, stored.apps)]
                 done == restartMonitoring(matched, order)
             IN  monitor' = [done EXCEPT
                                !.last = [op |-> "UpdateConfig", msg |-> msg,
                                          tailed |-> TailedPaths(done)],
                                !.prev = monitor.last]

DiscoveryFrame == [type |-> "discovery", slot |-> NoSlot, id |-> <<>>, info |-> 0]

\* Router.handleDiscover with the result apps of discovery.Discover
handleDiscover(apps) ==
    /\ IF Len(apps) > 0 THEN UpdateApps(apps) ELSE UNCHANGED validatorVars
    /\ monitor' = [monitor EXCEPT !.apps = apps,
                                  !.last = [op |-> "handleDiscover", msg |-> apps,
                                            tailed |-> TailedPaths(monitor)],
                                  !.prev = monitor.last]
    /\ sendCh' = Send(sendCh, DiscoveryFrame)

\* ------------------------------------------------------------------------
\* Specification of the monitor: discover frames and monitoring_config frames
\* in any order
\* ------------------------------------------------------------------------
RemoteSSH == <<"g", "i", "t", "@", "h", ":", "o", "/", "r", ".", "g", "i", "t">>
RemoteHTTPS ==
    <<"h", "t", "t", "p", "s", ":", "/", "/", "h", "/", "o", "/", "s", ".", "g", "i", "t">>

DiscoveredApp(path, remote) == [Path |-> path, Config |-> NilConfig, GitRemote |-> remote]

\* The results of a discovery: apps of different directories
Discoveries ==
    LET a == DiscoveredApp(<<"/", "a">>, RemoteSSH)
        p == DiscoveredApp(<<"/", "p">>, RemoteHTTPS)
        q == DiscoveredApp(<<"/", "p">>, <<>>)
    IN  { <<>>, <<a>>, <<p>>, <<q>>, <<a, p>>, <<p, a>>, <<a, q>> }

MonitoringApps ==
    { [RepoFullName |-> <<"o", "/", "r">>, LogPaths |-> << <<"l">>, <<"m">> >>],
      [RepoFullName |-> <<"o", "/", "s">>, LogPaths |-> << <<"l">> >>] }

MonitoringConfigs == SeqsUpTo(MonitoringApps, 2)

MonitorFrame ==
    UNCHANGED <<executorVars, handlers, net, routerVars, canon, agentVars, matcher, tailer>>

DoUpdateConfig ==
    /\ MonitorFrame
    /\ UNCHANGED <<validatorVars, sendCh>>
    /\ \E msg \in MonitoringConfigs : UpdateConfig(msg)

DoHandleDiscover == MonitorFrame /\ \E apps \in Discoveries : handleDiscover(apps)

MonitorInit ==
    /\ NewValidatorState
    /\ ExecutorIdle /\ SinkIdle("router") /\ RouterIdle /\ CanonIdle /\ AgentIdle
    /\ LogIdle

MonitorNext ==
    \/ DoUpdateConfig
    \/ DoHandleDiscover

MonitorSpec == MonitorInit /\ [][MonitorNext]_vars

\* TRUE iff a currently discovered app has a git remote of repository repo
Discovered(m, repo) ==
    \E i \in 1..Len(m.apps) :
        m.apps[i].GitRemote # <<>> /\ extractRepoFullName(m.apps[i].GitRemote) = repo

\* The repositories of the configs of a monitoring_config message
ReposOf(msg) == { msg[i].RepoFullName : i \in 1..Len(msg) }

\* The app monitors running
RunningMonitors(m) == { p \in MonitorPaths : m.appMonitors[p].running }

\* C27: after every UpdateConfig(C) the running app monitors are exactly one
\* for each repository of C that a currently discovered app has as its git
\* remote, the tailers running are exactly the tailers of these monitors (every
\* earlier one stopped), and UpdateConfig(C) after UpdateConfig(C) leaves the
\* same set of tailed paths as the first call.
C27_MonitorsAreTheConfiguredBindings ==
    monitor.last.op = "UpdateConfig" =>
        /\ \A repo \in Repos :
               Cardinality({ p \in RunningMonitors(monitor) :
                                monitor.appMonitors[p].repo = repo })
                 = IF repo \in ReposOf(monitor.last.msg) /\ Discovered(monitor, repo)
                   THEN 1 ELSE 0
        /\ monitor.running = MonitorTailers(monitor)
        /\ \A t \in monitor.running : t.gen = monitor.updates
        /\ (monitor.prev.op = "UpdateConfig" /\ monitor.prev.msg = monitor.last.msg)
               => monitor.last.tailed = monitor.prev.tailed

C27_Witness ==
    /\ monitor.last.op = "UpdateConfig"
    /\ monitor.prev.op = "UpdateConfig"
    /\ monitor.prev.msg = monitor.last.msg
    /\ Cardinality(RunningMonitors(monitor)) = 1
    /\ Len(monitor.last.msg) = 2
    /\ Cardinality(monitor.last.tailed) = 2

\* C28: once a monitoring_config naming repository R and a discover result
\* with an app whose git remote is R have both been handled, in either order,
\* the binding of R has its app_path set and its tailers are running.
C28_BoundOnceBothHandled ==
    \A repo \in Repos :
        (monitor.configs[repo].present /\ Discovered(monitor, repo)) =>
            /\ monitor.configs[repo].AppPath # <<>>
            /\ \E p \in RunningMonitors(monitor) :
                   /\ monitor.appMonitors[p].repo = repo
                   /\ monitor.appMonitors[p].tailers # {}
                   /\ monitor.appMonitors[p].tailers \subseteq monitor.running


\* ------------------------------------------------------------------------
\* Specification of the timestamp window: a verifier holding the server's key
\* runs VerifyCommand, at different times, on commands whose timestamps lie at
\* the edges of the window, inside it and outside it
\* ------------------------------------------------------------------------
Clocks == {0, 1, MaxMessageAge + FutureTolerance + 1}
WindowOffsets ==
    { 0 - MaxMessageAge - 1, 0 - MaxMessageAge, 1 - MaxMessageAge, 0,
      FutureTolerance - 1, FutureTolerance, FutureTolerance + 1 }

WindowTimestamps == { FormatInt(c + d) : c \in Clocks, d \in WindowOffsets }

TimedFrames ==
    { Frame("ok", Signed(key, CommandA(ts, <<"n">>))) :
        key \in {"server", "other"}, ts \in WindowTimestamps }
      \cup { Frame("ok", CommandA(ts, <<"n">>)) : ts \in WindowTimestamps }
      \cup { Frame("ok", Signed("server", CommandA(ts, <<>>))) : ts \in WindowTimestamps }

\* Verifier.VerifyCommand(data) at the time of the clock, its result recorded
\* with the time of the call
VerifyAt(frame) ==
    canon' = [phase |-> "timed", cmd |-> ZeroSignedCommand, rcvd |-> frame.cmd,
              err |-> VerifyCommand(verifier, frame, clock), now |-> clock]

\* time.Now moves on
ClockAdvance == \E c \in Clocks : c > clock /\ clock' = c

WindowFrame ==
    UNCHANGED <<validatorVars, executorVars, sinkVars, publicKey, verifier, lastRouted,
                connected, agentVars, logVars>>

DoVerifyAt == WindowFrame /\ UNCHANGED clock /\ \E frame \in TimedFrames : VerifyAt(frame)
DoClockAdvance == WindowFrame /\ UNCHANGED canon /\ ClockAdvance

WindowInit ==
    /\ \E key \in {[form |-> "base64", len |-> PublicKeySize, owner |-> "server"]} :
           NewRouter(key)
    /\ clock = 0
    /\ connected = FALSE
    /\ CanonIdle /\ AgentIdle /\ LogIdle

WindowNext ==
    \/ DoVerifyAt
    \/ DoClockAdvance

WindowSpec == WindowInit /\ [][WindowNext]_vars

\* TRUE iff the command has the three fields VerifyCommand asks for before it
\* looks at the timestamp
HasSignedFields(cmd) ==
    cmd.Signature.form # "missing" /\ cmd.Timestamp # <<>> /\ cmd.Nonce # <<>>

\* C29: with verification enabled, a command (carrying signature, timestamp
\* and nonce) whose timestamp is more than 30 s ahead of the agent's clock
\* fails with MessageFromFuture, one that is more than 5 min old fails with
\* MessageExpired, and a timestamp anywhere in the closed window from 5 min in
\* the past to 30 s in the future passes the timestamp check: the result is
\* then the result of the signature check.
C29_TimestampWindow ==
    (canon.phase = "timed" /\ HasSignedFields(canon.rcvd)) =>
        LET ahead == ParseTime(canon.rcvd.Timestamp) - canon.now
        IN  /\ verifier.enabled
            /\ ahead > 30 => canon.err = "ErrMessageFromFuture"
            /\ 0 - ahead > 5 * 60 => canon.err = "ErrMessageExpired"
            /\ (0 - 5 * 60 <= ahead /\ ahead <= 30) =>
                   canon.err = verifySignature(verifier, canon.rcvd)

C29_Witness ==
    /\ canon.phase = "timed"
    /\ HasSignedFields(canon.rcvd)
    /\ canon.now - ParseTime(canon.rcvd.Timestamp) = MaxMessageAge
    /\ canon.now > 0
    /\ canon.err = ""


\* s without the spaces at its two ends
RECURSIVE TrimmedOfSpaces(_)
TrimmedOfSpaces(s) ==
    IF s = <<>> THEN s
    ELSE IF Head(s) = " " THEN TrimmedOfSpaces(Tail(s))
    ELSE IF s[Len(s)] = " " THEN TrimmedOfSpaces(SubSeq(s, 1, Len(s) - 1))
    ELSE s

\* TRUE iff the segment, trimmed of spaces, is ".." or is made of dots
\* separated only by spaces
TraversalSegment(segment) ==
    LET s == TrimmedOfSpaces(segment)
    IN  \/ s = <<".", ".">>
        \/ /\ s # <<>>
           /\ \A i \in 1..Len(s) : s[i] \in {".", " "}
           /\ \E i \in 1..Len(s) : s[i] = " "

\* TRUE iff dir contains a NUL byte or a traversal segment
TraversalDir(dir) ==
    \/ \E i \in 1..Len(dir) : dir[i] = NUL
    \/ \E i, j \in 0..(Len(dir) + 1) :
          /\ i < j
          /\ i = 0 \/ dir[i] = "/"
          /\ j = Len(dir) + 1 \/ dir[j] = "/"
          /\ \A k \in (i + 1)..(j - 1) : dir[k] # "/"
          /\ TraversalSegment(SubSeq(dir, i + 1, j - 1))

\* TRUE iff the command passes the checks ValidateCommand makes before it
\* looks at the working directory
WithinLimits(cmd) ==
    /\ Len(cmd.ID) <= MaxCommandIDLen
    /\ Len(cmd.Command) <= MaxCommandLength
    /\ cmd.Timeout <= MaxTimeout

\* C30: a non-empty working_dir (of a command within the limits of id, length
\* and timeout) is rejected with PATH_TRAVERSAL whenever it contains a NUL byte
\* or a segment between slashes that, trimmed of spaces, is ".." or dots
\* separated only by spaces, with and without allowed paths and before
\* INVALID_WORKING_DIR or any later error; a working_dir without such a
\* segment, one of three or more dots included, is not rejected with
\* PATH_TRAVERSAL.
C30_TraversalRejected ==
    (lastValidation.called /\ lastValidation.cmd.WorkingDir # <<>>
        /\ WithinLimits(lastValidation.cmd)) =>
            (lastValidation.result = "PATH_TRAVERSAL"
                <=> TraversalDir(lastValidation.cmd.WorkingDir))

C30_Witness ==
    /\ lastValidation.called
    /\ lastValidation.cmd.WorkingDir = <<".", " ", ".">>
    /\ allowedPaths = <<>>
    /\ lastValidation.result = "PATH_TRAVERSAL"


\* TRUE iff dir, cleaned, is the allowed path or a directory below it
WithinPath(dir, allowed) ==
    \/ Clean(dir) = allowed
    \/ HasPrefix(Clean(dir), IF allowed = <<"/">> THEN allowed ELSE allowed \o <<"/">>)

\* C31: when allowed paths are configured, a working directory is accepted
\* only if it is an allowed path itself or a directory below one; a sibling
\* whose name merely begins with an allowed path is rejected with
\* INVALID_WORKING_DIR (a directory with a traversal segment or a NUL byte is
\* rejected before, with PATH_TRAVERSAL).
C31_AcceptedOnlyWithinAllowedPath ==
    (/\ lastValidation.called
     /\ Len(allowedPaths) > 0
     /\ lastValidation.cmd.WorkingDir # <<>>
     /\ WithinLimits(lastValidation.cmd)
     /\ ~TraversalDir(lastValidation.cmd.WorkingDir)
     /\ \A i \in 1..Len(allowedPaths) :
            ~WithinPath(lastValidation.cmd.WorkingDir, allowedPaths[i]))
        => lastValidation.result = "INVALID_WORKING_DIR"


\* The readLoop goroutines that have not returned
RunningReaders == { r \in Conns : mgr.readers[r] # NoConn }

\* C32: at every moment at most one read pump is running, and a read pump
\* started for one connection never reads from a later connection, also when
\* the running phase ended because a heartbeat or a queued write failed.
C32_OneReaderOnItsOwnConnection ==
    /\ Cardinality(RunningReaders) <= 1
    /\ \A r \in RunningReaders : mgr.readers[r] = r


\* The complete lines appended to file f after the tailer's Start opened it
AppendedLines(t, f) ==
    CompleteLines(SubSeq(t.files[f].content, t.first.size + 1, Size(t, f)))

\* C33: while the tailed file is neither rotated nor truncated, every
\* non-empty newline-terminated line appended after the tailer started is
\* emitted exactly once and in file order, whatever the interleaving of
\* appends, read ticks and rotation checks: once a read tick has read the file
\* to its end the lines emitted are the lines appended.
C33_AppendedLinesEmittedOnce ==
    LET f == tailer.first.file
    IN  (/\ f # NoFile
         /\ tailer.at = f
         /\ ~tailer.files[f].cut
         /\ tailer.file = f
         /\ tailer.offset = Size(tailer, f)
         /\ tailer.last.op = "readLines")
            => EmittedFrom(tailer, f) = AppendedLines(tailer, f)


\* The tailer began to read the file where a line begins
StartsOfLines(content, size) == size = 0 \/ content[size] = LF

\* C34: every line the tailer emits is the full content of one
\* newline-terminated line of the file; a line whose bytes arrive in several
\* appends, the newline last, is emitted whole.
C34_EmittedLinesAreWholeLines ==
    \A i \in 1..Len(tailer.emitted) :
        LET e == tailer.emitted[i]
            whole == CompleteLines(tailer.files[e.file].content)
        IN  (/\ ~tailer.files[e.file].cut
             /\ e.file = tailer.first.file
             /\ StartsOfLines(tailer.files[e.file].content, tailer.first.size))
                => \E k \in 1..Len(whole) : whole[k] = e.line



\* ------------------------------------------------------------------------
\* Specification of one app monitor: a tailer started on the app's log whose
\* handler is the ProcessLine of the app's matcher (startAppMonitor). Writers
\* append lines when they please; the tailer's 100 ms ticker runs readLines
\* for ever; restartMonitoring replaces the tailer and the matcher by new ones.
\* The history of the lines given and the matches handled is kept across the
\* restart.
\* ------------------------------------------------------------------------
AppPatterns == { <<"a">> }

\* The matcher m after ProcessLine of each of the lines, in their order
RECURSIVE ProcessedAll(_, _)
ProcessedAll(m, ls) ==
    IF ls = <<>> THEN m
    ELSE CHOOSE all \in { ProcessedAll(one, Tail(ls)) :
                             one \in { Processed(m, Head(ls).line) } } : TRUE

\* A tick of tailLoop's read ticker: readLines, its handler matcher.ProcessLine
TailerTick ==
    \E t \in { IF tailer.file = NoFile THEN openFileUnlocked(tailer) ELSE tailer } :
    \E done \in { IF t.file = NoFile THEN t ELSE ReadLoop(t) } :
    \E handed \in { SubSeq(done.emitted, Len(tailer.emitted) + 1, Len(done.emitted)) } :
        /\ Len(done.emitted) <= MaxEmitted
        /\ Len(matcher.lines) + Len(handed) <= MaxProcessed
        /\ tailer' = [done EXCEPT !.last = [op |-> "readLines", shrunk |-> FALSE]]
        /\ matcher' = ProcessedAll(matcher, handed)

\* Monitor.restartMonitoring for the app: the tailer is stopped, a new matcher
\* and a new tailer are made and the tailer is started
RestartAppMonitor ==
    /\ matcher.updates < MaxUpdates
    /\ tailer' = [openFileUnlocked([tailer EXCEPT !.file = NoFile, !.offset = 0,
                                                  !.position = 0, !.inode = 0])
                    EXCEPT !.last = [op |-> "Start", shrunk |-> FALSE]]
    /\ matcher' = [NewMatcher(matcher.patterns, matcher.contextLines)
                     EXCEPT !.lines = matcher.lines, !.handled = matcher.handled,
                            !.updates = matcher.updates + 1,
                            !.op = "restartMonitoring"]

AppMonitorFrame ==
    UNCHANGED <<validatorVars, executorVars, sinkVars, routerVars, canon, agentVars,
                monitor>>

DoAppWriteLine ==
    AppMonitorFrame /\ UNCHANGED matcher /\ \E line \in TailedLines : WriteLine(line)
DoTailerTick == AppMonitorFrame /\ TailerTick
DoRestartAppMonitor == AppMonitorFrame /\ RestartAppMonitor

AppMonitorInit ==
    /\ NewValidatorState
    /\ ExecutorIdle /\ SinkIdle("recording") /\ RouterIdle /\ CanonIdle /\ AgentIdle
    /\ \E count \in {1, 2} : matcher = NewMatcher(AppPatterns, count)
    /\ tailer = StartedTailer
    /\ monitor = NewMonitor

AppMonitorNext ==
    \/ DoAppWriteLine
    \/ DoTailerTick
    \/ DoRestartAppMonitor

\* The ticker of tailLoop fires every 100 ms as long as the tailer runs; no
\* one is bound to write to the log
AppMonitorFairSpec ==
    AppMonitorInit /\ [][AppMonitorNext]_vars /\ WF_vars(DoTailerTick)

\* C35: every pattern-matching line a tailer hands to the matcher eventually
\* results in one handleMatch call for it, whatever is written to the log
\* afterwards and whether or not the monitors are restarted in the meantime.
C35_MatchingLineEventuallyHandled ==
    \A i \in 1..MaxProcessed :
        (Len(matcher.lines) >= i
            /\ matchesPattern(matcher.lines[i].patterns, matcher.lines[i].line))
          ~> (\E k \in 1..Len(matcher.handled) : matcher.handled[k].at = i)


\* C36: after a discover frame has been handled, the validator's allowed paths
\* and its deny patterns are exactly those of the apps of that discovery
\* result, also when the result has no apps.
C36_ValidatorFollowsDiscovery ==
    monitor.last.op = "handleDiscover"
        => /\ allowedPaths = AppPaths(monitor.last.msg)
           /\ denyPatterns =
                compileDenyPatterns(DefaultDenyPatterns \o AppDenyPatterns(monitor.last.msg))



\* ------------------------------------------------------------------------
\* Specification of the validator under concurrency: one goroutine calls
\* UpdateApps, another ValidateCommand, each statement of theirs a step
\* ------------------------------------------------------------------------
\* sync.RWMutex: Lock waits until no one holds the mutex
CanLock(mu) == ~mu.writer /\ mu.readers = 0

\* RLock that waits for no one
CanRLockAlways(mu) == TRUE

\* sync.RWMutex: RLock waits while a writer holds the mutex
CanRLock(mu) == ~mu.writer

\* UpdateApps: v.mu.Lock()
UpdateAppsLock(apps) ==
    /\ calls.update.pc = "idle"
    /\ calls.update.n < MaxUpdates
    /\ CanLock(calls.mu)
    /\ calls' = [calls EXCEPT !.mu.writer = TRUE,
                              !.update = [pc |-> "clear", apps |-> apps, next |-> 1,
                                          allPatterns |-> <<>>, n |-> @.n + 1]]
    /\ UNCHANGED <<allowedPaths, denyPatterns, lastApps, lastValidation>>

\* UpdateApps: v.allowedPaths = []string{}, allPatterns a copy of the defaults
UpdateAppsClear ==
    /\ calls.update.pc = "clear"
    /\ allowedPaths' = <<>>
    /\ calls' = [calls EXCEPT !.update.pc = "apps",
                              !.update.allPatterns = DefaultDenyPatterns]
    /\ UNCHANGED <<denyPatterns, lastApps, lastValidation>>

\* UpdateApps: one turn of the loop over the apps
UpdateAppsApp ==
    /\ calls.update.pc = "apps"
    /\ calls.update.next <= Len(calls.update.apps)
    /\ LET app == calls.update.apps[calls.update.next]
       IN  /\ allowedPaths' = Append(allowedPaths, Clean(app.Path))
           /\ calls' = [calls EXCEPT !.update.next = @ + 1,
                                     !.update.allPatterns = @ \o AppDenyPatterns(<<app>>)]
    /\ UNCHANGED <<denyPatterns, lastApps, lastValidation>>

\* compileDenyPatterns: v.denyPatterns = make(...), empty
UpdateAppsResetPatterns ==
    /\ calls.update.pc = "apps"
    /\ calls.update.next > Len(calls.update.apps)
    /\ denyPatterns' = <<>>
    /\ calls' = [calls EXCEPT !.update.pc = "compile", !.update.next = 1]
    /\ UNCHANGED <<allowedPaths, lastApps, lastValidation>>

\* compileDenyPatterns: one turn of the loop over the patterns
UpdateAppsCompile ==
    /\ calls.update.pc = "compile"
    /\ calls.update.next <= Len(calls.update.allPatterns)
    /\ denyPatterns' =
          denyPatterns \o compileDenyPatterns(<<calls.update.allPatterns[calls.update.next]>>)
    /\ calls' = [calls EXCEPT !.update.next = @ + 1]
    /\ UNCHANGED <<allowedPaths, lastApps, lastValidation>>

\* UpdateApps returns: the deferred v.mu.Unlock()
UpdateAppsUnlock ==
    /\ calls.update.pc = "compile"
    /\ calls.update.next > Len(calls.update.allPatterns)
    /\ calls' = [calls EXCEPT !.mu.writer = FALSE,
                              !.update.pc = "idle",
                              !.states = @ \cup { [allowedPaths |-> allowedPaths,
                                                   denyPatterns |-> denyPatterns] }]
    /\ lastApps' = [called |-> TRUE, apps |-> calls.update.apps]
    /\ UNCHANGED <<allowedPaths, denyPatterns, lastValidation>>

\* ValidateCommand: v.mu.RLock()
ValidateRLock(cmd) ==
    /\ calls.validate.pc = "idle"
    /\ CanRLock(calls.mu)
    /\ calls' = [calls EXCEPT !.mu.readers = @ + 1,
                              !.validate = [pc |-> "dir", cmd |-> cmd, paths |-> Unread,
                                            deny |-> Unread, result |-> ""]]
    /\ UNCHANGED <<allowedPaths, denyPatterns, lastApps, lastValidation>>

\* ValidateCommand: the checks up to validateWorkingDir, which reads
\* v.allowedPaths
ValidateDir ==
    /\ calls.validate.pc = "dir"
    /\ LET cmd == calls.validate.cmd
           code == IF Len(cmd.ID) > MaxCommandIDLen THEN "COMMAND_ID_TOO_LONG"
                   ELSE IF Len(cmd.Command) > MaxCommandLength THEN "COMMAND_TOO_LONG"
                   ELSE IF cmd.Timeout > MaxTimeout THEN "TIMEOUT_TOO_LONG"
                   ELSE IF cmd.WorkingDir # <<>> THEN validateWorkingDir(cmd.WorkingDir)
                   ELSE "OK"
       IN  calls' = [calls EXCEPT
                        !.validate.pc = IF code = "OK" THEN "deny" ELSE "return",
                        !.validate.paths = IF cmd.WorkingDir # <<>>
                                           THEN ReadAs(allowedPaths) ELSE Unread,
                        !.validate.result = code]
    /\ UNCHANGED <<allowedPaths, denyPatterns, lastApps, lastValidation>>

\* ValidateCommand: validateEnvVars and checkDenyPatterns, which reads
\* v.denyPatterns
ValidateDeny ==
    /\ calls.validate.pc = "deny"
    /\ LET cmd == calls.validate.cmd
       IN  \E code \in (IF validateEnvVars(cmd.Env) # {"OK"} THEN validateEnvVars(cmd.Env)
                        ELSE {checkDenyPatterns(cmd.Command)}) :
              calls' = [calls EXCEPT
                           !.validate.pc = "return",
                           !.validate.deny = IF validateEnvVars(cmd.Env) # {"OK"}
                                             THEN Unread ELSE ReadAs(denyPatterns),
                           !.validate.result = code]
    /\ UNCHANGED <<allowedPaths, denyPatterns, lastApps, lastValidation>>

\* ValidateCommand returns: the deferred v.mu.RUnlock()
ValidateRUnlock ==
    /\ calls.validate.pc = "return"
    /\ calls' = [calls EXCEPT !.mu.readers = @ - 1, !.validate.pc = "idle"]
    /\ lastValidation' = [called |-> TRUE, cmd |-> calls.validate.cmd,
                          result |-> calls.validate.result]
    /\ UNCHANGED <<allowedPaths, denyPatterns, lastApps>>

ConcurrentCommands ==
    { Cmd(<<"a">>, <<"x">>, <<"/", "a">>, NoEnv, 0),
      Cmd(<<"a">>, <<"r">>, <<>>, NoEnv, 0),
      Cmd(<<"a">>, <<"x">>, <<"/", "b">>, NoEnv, 0),
      Cmd(<<"a">>, <<"x">>, <<".", ".">>, NoEnv, 0) }

ConcurrentFrame ==
    UNCHANGED <<executorVars, sinkVars, routerVars, canon, agentVars, logVars>>

DoUpdateAppsLock == ConcurrentFrame /\ \E apps \in AppLists : UpdateAppsLock(apps)
DoUpdateAppsClear == ConcurrentFrame /\ UpdateAppsClear
DoUpdateAppsApp == ConcurrentFrame /\ UpdateAppsApp
DoUpdateAppsResetPatterns == ConcurrentFrame /\ UpdateAppsResetPatterns
DoUpdateAppsCompile == ConcurrentFrame /\ UpdateAppsCompile
DoUpdateAppsUnlock == ConcurrentFrame /\ UpdateAppsUnlock
DoValidateRLock == ConcurrentFrame /\ \E cmd \in ConcurrentCommands : ValidateRLock(cmd)
DoValidateDir == ConcurrentFrame /\ ValidateDir
DoValidateDeny == ConcurrentFrame /\ ValidateDeny
DoValidateRUnlock == ConcurrentFrame /\ ValidateRUnlock

ConcurrentInit ==
    /\ NewValidatorState
    /\ ExecutorIdle /\ SinkIdle("recording") /\ RouterIdle /\ CanonIdle /\ AgentIdle
    /\ LogIdle

ConcurrentNext ==
    \/ DoUpdateAppsLock
    \/ DoUpdateAppsClear
    \/ DoUpdateAppsApp
    \/ DoUpdateAppsResetPatterns
    \/ DoUpdateAppsCompile
    \/ DoUpdateAppsUnlock
    \/ DoValidateRLock
    \/ DoValidateDir
    \/ DoValidateDeny
    \/ DoValidateRUnlock

ConcurrentSpec == ConcurrentInit /\ [][ConcurrentNext]_vars

\* C37: a ValidateCommand that runs concurrently with UpdateApps checks the
\* working directory and the deny patterns against one single state of the
\* validator, one it had before or after an update, never a mixture of two
\* states or a list that is being rebuilt. And an UpdateApps that has returned
\* has left the state that its argument defines.
C37_ValidateSeesOneState ==
    /\ calls.validate.pc = "return" =>
          \E s \in calls.states :
              /\ calls.validate.paths \in {Unread, ReadAs(s.allowedPaths)}
              /\ calls.validate.deny \in {Unread, ReadAs(s.denyPatterns)}
    /\ (~calls.mu.writer /\ lastApps.called) =>
          /\ allowedPaths = AppPaths(lastApps.apps)
          /\ denyPatterns =
                compileDenyPatterns(DefaultDenyPatterns \o AppDenyPatterns(lastApps.apps))

\* A validation that took the mutex between two UpdateApps calls returns,
\* having read the paths and the patterns the first call left
C37_Witness ==
    /\ calls.validate.pc = "return"
    /\ calls.validate.paths.read /\ Len(calls.validate.paths.list) = 2
    /\ calls.validate.deny.read /\ Len(calls.validate.deny.list) = 2
    /\ calls.validate.result = "COMMAND_DENIED"
    /\ calls.update.n = 1
    /\ Cardinality(calls.states) = 2


\* The deny patterns of the latest UpdateApps, after the defaults
LatestPatterns ==
    DefaultDenyPatterns \o (IF lastApps.called THEN AppDenyPatterns(lastApps.apps) ELSE <<>>)

\* C38: after any sequence of UpdateApps calls the compiled deny list holds
\* every default deny pattern and then exactly the deny patterns of the apps
\* of the latest call, each as a pattern that matches; one that does not
\* compile is there as a literal, and a command that holds it is denied.
C38_DenyListIsDefaultsPlusLatest ==
    /\ Len(denyPatterns) = Len(LatestPatterns)
    /\ \A i \in 1..Len(denyPatterns) :
          /\ denyPatterns[i].ok
          /\ denyPatterns[i].lit = LatestPatterns[i]
    /\ (lastValidation.called /\ lastValidation.cmd.Command = BadPattern) =>
          (lastValidation.result = "COMMAND_DENIED"
              <=> \E i \in 1..Len(LatestPatterns) : LatestPatterns[i] = BadPattern)

\* The second UpdateApps brought a pattern that does not compile, the first
\* one other patterns; the command that holds the pattern has been denied
C38_Witness ==
    /\ lastApps.called
    /\ Len(lastApps.apps) = 2
    /\ AppDenyPatterns(lastApps.apps) = << <<"x">>, BadPattern, <<"R">> >>
    /\ ~RegexpCompile(BadPattern).ok
    /\ Len(denyPatterns) = 4
    /\ lastValidation.called
    /\ lastValidation.cmd.Command = BadPattern
    /\ lastValidation.result = "COMMAND_DENIED"



\* ------------------------------------------------------------------------
\* Specification of handleMatch: the matchers of the app monitors call it from
\* the goroutines of their tailers, one goroutine for each app here, all on the
\* one Deduplicator of the monitor
\* ------------------------------------------------------------------------
ErrorEventFrame(count) == [type |-> "error_event", slot |-> NoSlot, id |-> <<>>, info |-> count]

\* handleMatch: the call of m.dedup.ShouldEmit for an error line whose
\* signature is h; the pointer to the entry of the signature is returned
HandleMatchShouldEmit(p, h) ==
    /\ monitor.handling[p].pc = "idle"
    /\ ShouldEmit(h)
    /\ monitor' = [monitor EXCEPT
          !.handling[p] =
              [pc |-> IF dedup'.last.emit THEN "emit" ELSE "idle",
               hash |-> h,
               decided |-> dedup'.entries[h].OccurrenceCount]]
    /\ UNCHANGED sendCh

\* handleMatch: the message is built from the fields of the entry as they are
\* now and handed to send; events is the history of the messages built
HandleMatchSend(p) ==
    /\ monitor.handling[p].pc = "emit"
    /\ LET h == monitor.handling[p].hash
           count == dedup.entries[h].OccurrenceCount
       IN  /\ monitor' = [monitor EXCEPT
                 !.handling[p].pc = "idle",
                 !.events = Append(@, [hash |-> h, count |-> count,
                                       decided |-> monitor.handling[p].decided,
                                       app |-> p])]
           /\ sendCh' = Send(sendCh, ErrorEventFrame(count))
    /\ UNCHANGED dedup

HandleMatchFrame ==
    UNCHANGED <<validatorVars, executorVars, handlers, net, routerVars, canon, agent, mgr,
                matcher, tailer>>

DoHandleMatchShouldEmit ==
    HandleMatchFrame /\ \E p \in MonitorPaths, h \in Signatures : HandleMatchShouldEmit(p, h)
DoHandleMatchSend == HandleMatchFrame /\ \E p \in MonitorPaths : HandleMatchSend(p)

HandleMatchInit ==
    /\ NewValidatorState
    /\ ExecutorIdle /\ SinkIdle("router") /\ RouterIdle /\ CanonIdle
    /\ agent = NoAgent /\ mgr = NewManager
    /\ \E max \in MaxPerWindows : dedup = [NewDeduplicator EXCEPT !.maxPerWindow = max]
    /\ LogIdle

HandleMatchNext ==
    \/ DoHandleMatchShouldEmit
    \/ DoHandleMatchSend

HandleMatchSpec == HandleMatchInit /\ [][HandleMatchNext]_vars

\* C39: the occurrence_count an error_event carries is the count its signature
\* had when ShouldEmit decided to emit the sighting, so the events of one
\* signature carry pairwise distinct counts, also when the matches of several
\* app monitors are handled at the same time.
C39_EventCarriesCountOfDecision ==
    /\ \A i \in 1..Len(monitor.events) :
          monitor.events[i].count = monitor.events[i].decided
    /\ \A i, j \in 1..Len(monitor.events) :
          (i # j /\ monitor.events[i].hash = monitor.events[j].hash)
              => monitor.events[i].count # monitor.events[j].count



\* A frame that carries the fields of a signed command, the signature of the
\* server over them and a timestamp inside the window at the time now
ValidlySigned(frame, now) ==
    /\ frame.json = "ok"
    /\ HasSignedFields(frame.cmd)
    /\ frame.cmd.Signature = SignCommand("server", frame.cmd)
    /\ TimeParses(frame.cmd.Timestamp)
    /\ now - ParseTime(frame.cmd.Timestamp) <= MaxMessageAge
    /\ ParseTime(frame.cmd.Timestamp) - now <= FutureTolerance

\* A router that verifies with the server's key has handed a command to the
\* executor before, and the executor has room
HandedBefore ==
    /\ connected
    /\ ~verifier.isNil /\ verifier.enabled /\ verifier.publicKey = "server"
    /\ NextSlot \in Slots
    /\ \E s \in Slots : task[s].pc # "none" /\ lastRouted.via[s] = "verified"

\* The frame is validly signed now and a command of its id is one of those
\* handed to the executor before
Replayed(frame) ==
    /\ \E s \in Slots : /\ task[s].pc # "none"
                        /\ task[s].id = frame.cmd.ID
                        /\ lastRouted.via[s] = "verified"
    /\ ValidlySigned(frame, clock)

\* C40: verification keeps no state between frames: a validly signed command
\* frame delivered again while its timestamp is inside the window passes
\* verification again and is handed to the executor again, with the same id:
\* whenever the router handles such a frame, the executor's next task is a
\* task of that id.
C40_ReplayIsExecutedAgain ==
    [][HandedBefore =>
        \A frame \in RouterFrames :
            (Replayed(frame) /\ handleCommand(frame)) =>
                /\ lastRouted'.via[NextSlot] = "verified"
                /\ task'[NextSlot].pc # "none"
                /\ task'[NextSlot].id = frame.cmd.ID]_vars

\* The same command has been verified and handed to the executor twice
C40_Witness ==
    /\ \A s \in Slots : task[s].pc # "none" /\ lastRouted.via[s] = "verified"
    /\ task[1].id = task[2].id
    /\ running[task[1].id] = 2

=============================================================================
